---- MODULE Spec2Model ----
(***************************************************************************)
(* Model of the speech -> translation -> speech pipeline of stt-v2:        *)
(* the translate-audio route (fast path and batch fallback), the check-job *)
(* route (job poller), the page's client logic, and the pure helpers       *)
(* (regex text chunking, trimming, joining).                               *)
(*                                                                         *)
(* Text values are kept run-length encoded: a text is a sequence of runs   *)
(* [c |-> class, n |-> count] with adjacent runs of different class and    *)
(* n >= 1.  The classes are the only distinctions the code makes between   *)
(* characters: "a" an ordinary character, "." a full stop, "nl" a newline, *)
(* "sp" any other whitespace.  Positions are 1-based.                      *)
(***************************************************************************)
EXTENDS Integers, Sequences, FiniteSets, TLC

Min(a, b) == IF a <= b THEN a ELSE b
Max(a, b) == IF a >= b THEN a ELSE b

SetMax(S) == IF S = {} THEN 0
             ELSE LET x == CHOOSE y \in S : \A z \in S : z <= y IN x

SetMin(S) == IF S = {} THEN 0
             ELSE LET x == CHOOSE y \in S : \A z \in S : y <= z IN x

(*************************** text representation ***************************)

Classes == {"a", ".", "nl", "sp"}

\* JavaScript \s and String.prototype.trim: newline is whitespace too.
IsWs(c) == c \in {"sp", "nl"}

Run(c, n) == [c |-> c, n |-> n]

EmptyText == << >>

RECURSIVE SumRuns(_, _)
SumRuns(t, j) == IF j = 0 THEN 0 ELSE t[j].n + SumRuns(t, j - 1)

\* String.prototype.length
TextLen(t) == SumRuns(t, Len(t))

RunStart(t, j) == SumRuns(t, j - 1) + 1
RunEnd(t, j) == SumRuns(t, j)

\* the class of the character at position i
CharAt(t, i) == t[CHOOSE j \in 1..Len(t) : RunStart(t, j) <= i /\ i <= RunEnd(t, j)].c

\* the characters from..to of t (String.prototype.substring(from - 1, to))
Substring(t, from, to) ==
  LET clipped == [j \in 1..Len(t) |->
                    Run(t[j].c, Min(to, RunEnd(t, j)) - Max(from, RunStart(t, j)) + 1)]
      Keep(r) == r.n > 0
  IN SelectSeq(clipped, Keep)

\* string concatenation
Concat(t, u) ==
  IF t = << >> THEN u
  ELSE IF u = << >> THEN t
  ELSE IF t[Len(t)].c = u[1].c
       THEN SubSeq(t, 1, Len(t) - 1) \o << Run(u[1].c, t[Len(t)].n + u[1].n) >> \o Tail(u)
       ELSE t \o u

\* a trim that removes nothing
Trim_Nothing(t) == t
\* String.prototype.trim
Trim(t) ==
  LET nonWs == {j \in 1..Len(t) : ~IsWs(t[j].c)}
  IN IF nonWs = {} THEN << >> ELSE SubSeq(t, SetMin(nonWs), SetMax(nonWs))

Space == << Run("sp", 1) >>

\* Array.prototype.join(" ")
RECURSIVE JoinUpTo(_, _)
JoinUpTo(parts, k) ==
  IF k = 0 THEN << >>
  ELSE IF k = 1 THEN parts[1]
  ELSE Concat(Concat(JoinUpTo(parts, k - 1), Space), parts[k])

JoinSpace(parts) == JoinUpTo(parts, Len(parts))

(****************************** regex chunking *****************************)

\* Character classes that end a chunk in the translate-stage pattern
\* /[\s\S]{1,N}(?:\.|\n|\s|$)/g and in the speech-stage pattern
\* /[\s\S]{1,N}(\s|$)/g.
SentenceTerminators == {".", "nl", "sp"}
WhitespaceTerminators == {"nl", "sp"}

\* the last position in lo..hi whose character is in Term (0: none)
LastTermIn(t, lo, hi, Term) ==
  SetMax({Min(hi, RunEnd(t, j)) :
            j \in {i \in 1..Len(t) : /\ t[i].c \in Term
                                     /\ Max(lo, RunStart(t, i)) <= Min(hi, RunEnd(t, i))}})

\* the first position >= lo whose character is in Term (0: none)
FirstTermFrom(t, lo, Term) ==
  SetMin({Max(lo, RunStart(t, j)) :
            j \in {i \in 1..Len(t) : t[i].c \in Term /\ RunEnd(t, i) >= lo}})

\* One attempt of the pattern [\s\S]{1,maxLen}(Term|$) anchored at position s
\* (s <= length): the quantifier is greedy, so the match takes the largest
\* k in 1..maxLen such that the k characters s..s+k-1 end the text ($), or
\* are followed by a terminator, which the match then includes.  The result
\* is the position of the last matched character, 0 when no k works.
MatchEnd(t, s, maxLen, Term) ==
  LET n == TextLen(t)
  IN IF n - s + 1 <= maxLen THEN n
     ELSE LastTermIn(t, s + 1, s + maxLen, Term)

\* The regex engine retries a failed attempt one position further on, so a
\* search from s finds the first s' >= s at which an attempt succeeds; the
\* characters s..s'-1 are in no match.  An attempt at s' fails exactly when
\* more than maxLen characters remain and none of s'+1..s'+maxLen is a
\* terminator.  0 when s is past the end.
NextMatchStart(t, s, maxLen, Term) ==
  LET n == TextLen(t)
      t1 == FirstTermFrom(t, s + maxLen + 1, Term)
  IN IF s > n THEN 0
     ELSE IF MatchEnd(t, s, maxLen, Term) # 0 THEN s
     ELSE IF t1 = 0 THEN n - maxLen + 1
     ELSE Min(t1 - maxLen, n - maxLen + 1)

\* String.prototype.match with a global pattern: the successive matches,
\* each search starting after the previous match, as [from, to] positions.
RECURSIVE MatchesFrom(_, _, _, _)
MatchesFrom(t, s, maxLen, Term) ==
  LET s1 == NextMatchStart(t, s, maxLen, Term)
      e == MatchEnd(t, s1, maxLen, Term)
  IN IF s1 = 0 THEN << >>
     ELSE << [from |-> s1, to |-> e] >> \o MatchesFrom(t, e + 1, maxLen, Term)

RegexMatchAll(t, maxLen, Term) == MatchesFrom(t, 1, maxLen, Term)

(**************************** program constants ****************************)

BytesPerMiB == 1048576
\* page.tsx: sizeMB > 4.0 bypasses the route
ClientBypassMiB == 4
\* translate-audio route: audioSizeMB > 1.0 goes to the batch path
RouteBatchMiB == 1
\* check-job route: originalText.length > 1900, pattern {1,1900}
TranslateCeiling == 1900
\* translate-audio route and the newer poller: translatedText.length > 2500,
\* pattern {1,2400}
SpeechCeiling == 2500
SpeechChunkLen == 2400
\* the older poller: translatedText.length > 500, pattern {1,490}
LegacySpeechCeiling == 500
LegacySpeechChunkLen == 490
\* setTimeout(poll, 10000)
PollIntervalMs == 10000

(******************************* environment *******************************)

Absent == "<absent>"

\* An error text, as far as the code looks at it: which of the phrases the
\* code searches for it contains, and whether the phrase is spelled exactly
\* as the literal in the code ("asWritten") or in another letter case.
ErrText(src, phrase, form) == [src |-> src, phrase |-> phrase, form |-> form]
NoError == ErrText("none", "none", "asWritten")
AppError(text) == ErrText("app", text, "asWritten")

DurationPhrase == "duration greater than 30 seconds"
TooLongPhrase == "too long"
SameLanguagePhrase == "Source and target languages must be different"

\* String.prototype.toLowerCase followed by includes(phrase), for a phrase
\* whose literal is all lower case: the letter case of the text is irrelevant
LowerCaseIncludes(msg, phrase) == msg.phrase = phrase
\* String.prototype.includes(phrase) on the text as it is: case-sensitive
Includes(msg, phrase) == msg.phrase = phrase /\ msg.form = "asWritten"

ErrorForms == {"asWritten", "otherCase"}
\* error bodies the speech-to-text provider can answer with
SttErrorTexts ==
  {ErrText("stt", ph, f) : ph \in {DurationPhrase, TooLongPhrase, "internal error"},
                           f \in ErrorForms}
\* error bodies the translate provider can answer with
TranslateErrorTexts ==
  {ErrText("translate", ph, f) : ph \in {SameLanguagePhrase, "internal error"},
                                 f \in ErrorForms}
TtsErrorText == ErrText("tts", "internal error", "asWritten")

Letters(n) == << Run("a", n) >>

\* transcripts the provider can return
Transcripts == {EmptyText, Letters(5), Letters(TranslateCeiling + 1)}

\* JSON bodies of a successful speech-to-text answer: the fields the client
\* looks at (a field that is missing or "" is EmptyText)
SttBody(transcript, text, dataText, resultText, lang) ==
  [transcript |-> transcript, text |-> text, dataText |-> dataText,
   resultText |-> resultText, language_code |-> lang]
SttBodies ==
  {SttBody(t, EmptyText, EmptyText, EmptyText, Absent) : t \in Transcripts}
  \cup {SttBody(Letters(5), Letters(6), EmptyText, EmptyText, "ta-IN"),
        SttBody(EmptyText, Letters(6), Letters(7), EmptyText, Absent),
        SttBody(EmptyText, EmptyText, Letters(7), Letters(8), Absent),
        SttBody(EmptyText, EmptyText, EmptyText, Letters(8), Absent)}

\* translations the provider can return
Translations ==
  { EmptyText,
    << Run("a", 2000), Run("sp", 1), Run("a", 600) >> }
TranslateBody(translated, text, dataTranslated) ==
  [translated_text |-> translated, text |-> text, dataTranslated |-> dataTranslated]
TranslateBodies ==
  {TranslateBody(t, EmptyText, EmptyText) : t \in Translations}
  \cup {TranslateBody(Letters(7), Letters(8), Letters(9)),
        TranslateBody(EmptyText, Letters(8), Letters(9)),
        TranslateBody(EmptyText, EmptyText, Letters(9))}

\* Audio travels as base64 strings.  A string is modelled by the bytes it
\* decodes to, and by whether it is the canonical encoding of those bytes
\* (Buffer.toString("base64") always produces the canonical one).
B64(bytes, canonical) == [bytes |-> bytes, canonical |-> canonical]
\* Buffer.from(b64, "base64")
Base64Decode(b64) == b64.bytes
\* Buffer.toString("base64")
Base64Encode(bytes) == B64(bytes, TRUE)
EmptyString == B64(<< >>, TRUE)
\* an element of an audio array that is no string: the JSON null a provider
\* can send as audios[0], which textToSpeech returns as it is
NotAString == [bytes |-> << >>, canonical |-> FALSE, json |-> "null"]
IsString(v) == DOMAIN v = {"bytes", "canonical"}

WavHeaderLen == 44

\* Buffer.writeUInt32LE(value, offset): the four bytes written
UInt32LE(value) ==
  << value % 256, (value \div 256) % 256, (value \div 65536) % 256,
     (value \div 16777216) % 256 >>
\* Buffer.readUInt32LE(offset), offset 0-based
ReadUInt32LE(buf, offset) ==
  buf[offset + 1] + 256 * buf[offset + 2] + 65536 * buf[offset + 3]
  + 16777216 * buf[offset + 4]

\* a 44-byte RIFF/WAVE header whose two size fields fit a payload of n bytes
WavHeader(n) ==
  << 82, 73, 70, 70 >> \o UInt32LE(n + 36) \o << 87, 65, 86, 69 >>
  \o << 102, 109, 116, 32, 16, 0, 0, 0, 1, 0, 1, 0 >>
  \o << 64, 31, 0, 0, 128, 62, 0, 0, 2, 0, 16, 0 >>
  \o << 100, 97, 116, 97 >> \o UInt32LE(n)
Wav(payload) == WavHeader(Len(payload)) \o payload

RECURSIVE SumPayload(_, _)
SumPayload(buffers, k) ==
  IF k = 0 THEN 0 ELSE (Len(buffers[k]) - WavHeaderLen) + SumPayload(buffers, k - 1)

\* a merge that forgets b.subarray(44) and concatenates the whole buffers
RECURSIVE ConcatPayload_WithHeaders(_, _)
ConcatPayload_WithHeaders(buffers, k) ==
  IF k = 0 THEN << >> ELSE ConcatPayload_WithHeaders(buffers, k - 1) \o buffers[k]

RECURSIVE ConcatPayload(_, _)
ConcatPayload(buffers, k) ==
  IF k = 0 THEN << >>
  ELSE ConcatPayload(buffers, k - 1) \o SubSeq(buffers[k], WavHeaderLen + 1, Len(buffers[k]))

\* a length check that looks at the first buffer only
TooShort_FirstOnly(buffers) == Len(buffers[1]) < WavHeaderLen
\* buffers.some((b) => b.length < 44)
TooShort(buffers) == \E i \in 1..Len(buffers) : Len(buffers[i]) < WavHeaderLen

\* a RIFF size that counts the whole file instead of the file minus 8 bytes
RiffSize_WholeFile(totalDataLength) == totalDataLength + 44
\* the RIFF chunk size written at offset 4: totalDataLength + 36
RiffSize(totalDataLength) == totalDataLength + 36

\* a merge that builds a fresh standard header instead of copying the first
MergedHeader_Fresh(first, totalDataLength) == WavHeader(totalDataLength)
\* the first buffer's 44 bytes with the two size fields rewritten
MergedHeader(first, totalDataLength) ==
  SubSeq(first, 1, 4) \o UInt32LE(RiffSize(totalDataLength))
  \o SubSeq(first, 9, 40) \o UInt32LE(totalDataLength)

\* a single element that is sent through decode and encode
MergeOne_Reencoded(base64Array) == Base64Encode(Base64Decode(base64Array[1]))
\* if (base64Array.length === 1) return base64Array[0]
MergeOne(base64Array) == base64Array[1]

\* what a block of code ends as: a returned value, or a thrown error
Returned(value) == [threw |-> FALSE, value |-> value]
Thrown == [threw |-> TRUE, value |-> EmptyString]

\* the try block of mergeWavBase64: Buffer.from throws a TypeError for an
\* element that is no string
\* (writeUInt32LE throws only for 4 GiB of audio or more, which is past what
\* a response can hold and past the integers of the model)
MergeTry(base64Array) ==
  LET buffers == [i \in 1..Len(base64Array) |-> Base64Decode(base64Array[i])]
      totalDataLength == SumPayload(buffers, Len(buffers))
      header == MergedHeader(SubSeq(buffers[1], 1, WavHeaderLen), totalDataLength)
  IN IF \E i \in 1..Len(base64Array) : ~IsString(base64Array[i]) THEN Thrown
     ELSE IF TooShort(buffers) THEN Returned(base64Array[1])
     ELSE Returned(Base64Encode(header \o ConcatPayload(buffers, Len(buffers))))

\* catch (error) { return base64Array[0]; }
MergeCatch(attempt, base64Array) ==
  IF attempt.threw THEN Returned(base64Array[1]) ELSE attempt

\* mergeWavBase64, as the value it returns or the error it throws
MergeOutcome(base64Array) ==
  IF Len(base64Array) = 0 THEN Returned(EmptyString)
  ELSE IF Len(base64Array) = 1 THEN Returned(MergeOne(base64Array))
  ELSE MergeCatch(MergeTry(base64Array), base64Array)

\* mergeWavBase64
mergeWavBase64(base64Array) == MergeOutcome(base64Array).value

\* audio the speech provider can return: two clips, and no audio ("")
ClipA == B64(Wav(<< 1, 2 >>), TRUE)
ClipB == B64(Wav(<< 3 >>), TRUE)
Clips == {ClipA, ClipB}
TtsBody(audios, audio, base64) == [audios |-> audios, audio |-> audio, base64 |-> base64]
TtsBodies ==
  { TtsBody(<< ClipA >>, ClipB, EmptyString),
    TtsBody(<< >>, EmptyString, ClipB),
    TtsBody(<< >>, EmptyString, EmptyString) }

\* Math.random() draws of one getRandomSpeakerConfig call, in thousandths
RandomDraws == {<< 0, 0, 0 >>, << 999, 999, 999 >>}

TargetLanguages == {"hi-IN", "ta-IN"}

\* the most chunks any text of the model is split into
MaxChunks == 4
JobIds == {"job-1"}

\* audio the user can capture: an uploaded File has a name, a recorded Blob
\* has none
\* File names are kept as their dot-separated segments: "talk.mp3" is
\* << "talk", "mp3" >>, "" is << >>.
NoName == << >>
AudioFile(size, name) == [size |-> size, name |-> name]
AudioFiles ==
  { AudioFile(RouteBatchMiB * BytesPerMiB, << "talk", "mp3" >>),
    AudioFile(RouteBatchMiB * BytesPerMiB + 1, NoName),
    AudioFile(ClientBypassMiB * BytesPerMiB, << "talk", "mp3" >>),
    AudioFile(ClientBypassMiB * BytesPerMiB + 1, NoName) }
NoFile == [size |-> 0, name |-> << "<none>" >>]

(************************* sarvam.ts: result parsing ************************)

FirstNonEmpty(candidates) ==
  LET found == {i \in 1..Len(candidates) : candidates[i] # EmptyText}
  IN IF found = {} THEN EmptyText ELSE candidates[SetMin(found)]

\* speechToText: data.transcript || data.text || data.data?.text || data.result?.text || ""
SttText(data) ==
  FirstNonEmpty(<< data.transcript, data.text, data.dataText, data.resultText >>)
\* speechToText: data.language_code || "hi-IN"
SttLanguage(data) == IF data.language_code = Absent THEN "hi-IN" ELSE data.language_code

\* translateText: data.translated_text || data.text || data.data?.translated_text || ""
TranslatedText(data) ==
  FirstNonEmpty(<< data.translated_text, data.text, data.dataTranslated >>)

\* textToSpeech: data.audios[0] when there is one, else data.audio || data.base64 || ""
SpeechAudio(data) ==
  IF Len(data.audios) > 0 THEN data.audios[1]
  ELSE IF data.audio # EmptyString THEN data.audio
  ELSE data.base64

femaleSpeakers ==
  << "priya", "shreya", "sophia", "amelia", "ritu", "neha", "ishita", "kavya" >>
maleSpeakers == << "aditya", "rahul", "kabir" >>

\* getRandomSpeakerConfig, for the three Math.random() draws it makes (in
\* thousandths); the pace is kept in hundredths, as toFixed(2) rounds it
getRandomSpeakerConfig(draws) ==
  IF draws[1] > 500
    THEN [name |-> femaleSpeakers[((draws[2] * Len(femaleSpeakers)) \div 1000) + 1],
          gender |-> "Female",
          pace |-> (100000 + draws[3] * 15 + 500) \div 1000]
    ELSE [name |-> maleSpeakers[((draws[2] * Len(maleSpeakers)) \div 1000) + 1],
          gender |-> "Male",
          pace |-> (95000 + draws[3] * 10 + 500) \div 1000]
NoSpeaker == [name |-> "<none>", gender |-> "<none>", pace |-> 0]

(************************** requests and responses *************************)

Request(kind, file, targetLanguage, jobId, fileName) ==
  [kind |-> kind, file |-> file, targetLanguage |-> targetLanguage,
   jobId |-> jobId, fileName |-> fileName]
NoRequest == Request("none", NoFile, "", "", NoName)

\* a JSON response: the HTTP status and the fields of the body
Response(http, status, jobId, fileName, originalText, translatedText, audioBase64,
         warning, error, details) ==
  [http |-> http, status |-> status, jobId |-> jobId, fileName |-> fileName,
   uploadUrl |-> Absent, originalText |-> originalText, translatedText |-> translatedText,
   audioBase64 |-> audioBase64, warning |-> warning, error |-> error,
   details |-> details]
NoResponse ==
  Response(0, Absent, Absent, NoName, EmptyText, EmptyText, EmptyString, Absent,
           Absent, NoError)
ErrorResponse(http, error, details) ==
  Response(http, Absent, Absent, NoName, EmptyText, EmptyText, EmptyString, Absent,
           error, details)

\* a remote call made by a handler: the arguments it carries, and how it
\* ended ("pending" while in flight; the error text when it threw; for a
\* status query the job state it reported, and with a failed job the error
\* detail the provider gave; the body of a successful answer the handler
\* went on to read)
Call(op, text, target, source, speaker, jobId, fileName, size) ==
  [op |-> op, text |-> text, target |-> target, source |-> source,
   speaker |-> speaker, jobId |-> jobId, fileName |-> fileName, size |-> size,
   outcome |-> "pending", err |-> NoError, state |-> "", detail |-> Absent,
   reply |-> Absent]
Ended(call, ok, msg) ==
  [call EXCEPT !.outcome = IF ok THEN "ok" ELSE "error", !.err = IF ok THEN NoError ELSE msg]
Replied(call, o) ==
  [Ended(call, o.ok, o.msg) EXCEPT !.reply = IF o.ok THEN o.body ELSE Absent]
SttCall(size) == Call("speechToText", EmptyText, "", "", NoSpeaker, "", NoName, size)
TranslateCall(text, target, source, speaker) ==
  Call("translateText", text, target, source,
       [name |-> "<none>", gender |-> speaker.gender, pace |-> 0], "", NoName, 0)
\* a call made without the speakerConfig argument: textToSpeech then draws a
\* speaker of its own (speakerConfig || getRandomSpeakerConfig()), here a
\* different one for long and for short texts
TtsCall_OwnSpeaker(text, target, speaker) ==
  Call("textToSpeech", text, target, "",
       IF TextLen(text) > 1000
         THEN [name |-> "priya", gender |-> "Female", pace |-> 100]
         ELSE [name |-> "aditya", gender |-> "Male", pace |-> 95],
       "", NoName, 0)
TtsCall(text, target, speaker) ==
  Call("textToSpeech", text, target, "", speaker, "", NoName, 0)
\* a job wrapper that posts to the start endpoint whatever it is asked
JobCall_AlwaysStart(op, jobId, fileName, size) ==
  Call("startBatchJob", EmptyText, "", "", NoSpeaker, jobId, fileName, size)
JobCall(op, jobId, fileName, size) ==
  Call(op, EmptyText, "", "", NoSpeaker, jobId, fileName, size)

(************************** state of the system *****************************)

VARIABLES
  audioFile,        \* page: the captured audio (NoFile when none)
  targetLanguage,   \* page: the selected target language
  isLoading,        \* page
  error,            \* page: the error shown (NoError when null)
  warning,          \* page: the warning shown (Absent when null)
  result,           \* page: the result shown (NoResponse when null)
  clientPc,         \* page: where processTranslate / poll stands
  pollArgs,         \* page: what the poll closure holds: jobId, fileName, targetLanguage,
                    \* and the delay of the timer it has set (0 when none is set)
  request,          \* the HTTP request the page has sent to a route
  srv,              \* the route handler serving it: position, locals, remote calls, response
  job,              \* the batch job at the provider
  recorder          \* AudioRecorder: its state, refs and the closure of its interval

pageVars == << audioFile, targetLanguage, isLoading, error, warning, result >>
vars == << audioFile, targetLanguage, isLoading, error, warning, result,
           clientPc, pollArgs, request, srv, job, recorder >>

NoPoll == [jobId |-> "", fileName |-> NoName, targetLanguage |-> "", timer |-> 0]
NoJob == [id |-> "", state |-> "none", uploaded |-> FALSE]

\* a handler that is not running
IdleHandler ==
  [pc |-> "idle", handler |-> "none", calls |-> << >>, out |-> NoResponse,
   size |-> 0, fileName |-> NoName, targetLanguage |-> "", jobId |-> "",
   variant |-> "none", viaSttError |-> FALSE,
   originalText |-> EmptyText, languageCode |-> "",
   speakerConfig |-> NoSpeaker, translatedText |-> EmptyText,
   warningMessage |-> Absent,
   stage |-> "none", sequential |-> FALSE, queue |-> << >>, pending |-> {},
   base |-> 0,
   translatedChunks |-> << >>, audioParts |-> << >>,
   outputFileNames |-> << >>, tryIndex |-> 0]

\* AudioRecorder as it is mounted: not recording, no MediaRecorder, no interval.
\* isRecording and recordingDuration are its state, mediaRecorder the state
\* of mediaRecorderRef.current ("none" while the ref is null), timer whether
\* the interval of timerRef is set, stopSeesRecording the isRecording that
\* the stopRecording called by the interval closes over, seconds the time
\* the MediaRecorder has recorded, stopEvent a stop event not yet handled.
IdleRecorder ==
  [mounted |-> TRUE, isRecording |-> FALSE, recordingDuration |-> 0,
   mediaRecorder |-> "none", timer |-> FALSE, stopSeesRecording |-> FALSE,
   seconds |-> 0, stopEvent |-> FALSE]

\* a response after which the handler goes on from where it stood
Return_GoesOn(s, resp) == [s EXCEPT !.out = resp, !.pending = {}]
\* the handler returns a response: nothing of it runs afterwards
Return(s, resp) == [s EXCEPT !.pc = "done", !.out = resp, !.pending = {}]

TypeOK ==
  /\ audioFile \in AudioFiles \cup {NoFile}
  /\ targetLanguage \in TargetLanguages
  /\ isLoading \in BOOLEAN
  /\ warning \in STRING
  /\ clientPc \in {"idle", "awaitInitiate", "uploading", "awaitStart", "awaitTranslate",
                   "awaitPoll", "pollTimer"}
  /\ request.kind \in {"none", "form", "initiate", "start", "check-job"}
  /\ srv.pc \in {"idle", "done", "speechToText", "translateText", "settle",
                 "initiateBatchJob", "getUploadUrl", "uploadToAzure", "startBatchJob",
                 "getBatchJobStatus", "getDownloadUrls", "fetchResult"}
  /\ job.state \in {"none", "Accepted", "Pending", "Running", "Completed", "Failed"}
  /\ Len(srv.queue) <= MaxChunks
  /\ srv.pending \subseteq 1..Len(srv.queue)
  /\ recorder.mediaRecorder \in {"none", "recording", "inactive"}
  /\ recorder.recordingDuration \in Nat

Init ==
  /\ audioFile = NoFile
  /\ targetLanguage = "hi-IN"
  /\ isLoading = FALSE
  /\ error = NoError
  /\ warning = Absent
  /\ result = NoResponse
  /\ clientPc = "idle"
  /\ pollArgs = NoPoll
  /\ request = NoRequest
  /\ srv = IdleHandler
  /\ job = NoJob
  /\ recorder = IdleRecorder

(****************************** page.tsx ***********************************)

\* (audioFile as File).name || "audio.wav"
ClientFileName(file) == IF file.name = NoName THEN << "audio", "wav" >> ELSE file.name

\* page.tsx: sizeMB > 4.0, with sizeMB = audioFile.size / (1024 * 1024)
ClientBypasses(size) == size > ClientBypassMiB * BytesPerMiB

\* handleAudioCapture: the recorder and the uploader are rendered only while
\* no audio is captured, and are disabled while a run is loading
handleAudioCapture(file) ==
  /\ audioFile = NoFile
  /\ ~isLoading
  /\ audioFile' = file
  /\ result' = NoResponse
  /\ error' = NoError
  /\ warning' = Absent
  /\ UNCHANGED << targetLanguage, isLoading, clientPc, pollArgs, request, srv, job >>
  /\ UNCHANGED recorder

\* clearAudio: the Remove button is rendered when audio is captured and is
\* disabled while loading
clearAudio ==
  /\ audioFile # NoFile
  /\ ~isLoading
  /\ audioFile' = NoFile
  /\ result' = NoResponse
  /\ error' = NoError
  /\ warning' = Absent
  /\ UNCHANGED << targetLanguage, isLoading, clientPc, pollArgs, request, srv, job >>
  /\ UNCHANGED recorder

\* a selector that stays enabled while a run is loading
setTargetLanguage_WhileLoading(lang) ==
  /\ lang # targetLanguage
  /\ targetLanguage' = lang
  /\ UNCHANGED << audioFile, isLoading, error, warning, result, clientPc, pollArgs,
                  request, srv, job >>
  /\ UNCHANGED recorder

\* LanguageSelector onChange, disabled while loading
setTargetLanguage(lang) ==
  /\ ~isLoading
  /\ lang # targetLanguage
  /\ targetLanguage' = lang
  /\ UNCHANGED << audioFile, isLoading, error, warning, result, clientPc, pollArgs,
                  request, srv, job >>
  /\ UNCHANGED recorder

\* processTranslate up to its first fetch: the large-file bypass asks the
\* route to initiate a job, anything else is posted to the route as a form
processTranslate ==
  /\ audioFile # NoFile
  /\ ~isLoading
  /\ isLoading' = TRUE
  /\ error' = NoError
  /\ result' = NoResponse
  /\ IF ClientBypasses(audioFile.size)
       THEN /\ warning' = "Large file detected. Bypassing serverless limits..."
            /\ request' = Request("initiate", NoFile, "", "", ClientFileName(audioFile))
            /\ clientPc' = "awaitInitiate"
       ELSE /\ warning' = Absent
            /\ request' = Request("form", audioFile, targetLanguage, "", NoName)
            /\ clientPc' = "awaitTranslate"
  /\ pollArgs' = [NoPoll EXCEPT !.targetLanguage = targetLanguage]
  /\ UNCHANGED << audioFile, targetLanguage, srv, job >>
  /\ UNCHANGED recorder

\* a catch block that reports the error and leaves the page loading
Caught_StillLoading(msg) ==
  /\ error' = msg
  /\ isLoading' = isLoading
  /\ clientPc' = "idle"
  /\ request' = NoRequest
  /\ srv' = IdleHandler

\* the catch block of processTranslate and of poll: setError, setIsLoading(false)
Caught(msg) ==
  /\ error' = msg
  /\ isLoading' = FALSE
  /\ clientPc' = "idle"
  /\ request' = NoRequest
  /\ srv' = IdleHandler

\* pollJobStatus(jobId, fileName): the first poll() is issued at once, with
\* the target language of the render that started the run
StartPolling(jobId, fileName) ==
  /\ pollArgs' = [pollArgs EXCEPT !.jobId = jobId, !.fileName = fileName]
  /\ request' = Request("check-job", NoFile, pollArgs.targetLanguage, jobId, fileName)
  /\ clientPc' = "awaitPoll"
  /\ srv' = IdleHandler

\* what a fetch of the page can end as: a response, or a thrown network error
FetchEnds == {"response", "throws"}
NetworkError == ErrText("fetch", "Failed to fetch", "asWritten")

\* a page that takes every answer for a success
Ok_Always(resp) == TRUE
\* response.ok
Ok(resp) == resp.http >= 200 /\ resp.http <= 299

\* data.error || fallback
ErrorOr(data, fallback) == IF data.error = Absent THEN fallback ELSE data.error

\* processTranslate, standard route: from the route's answer to the end
processTranslateResponse(net) ==
  /\ clientPc = "awaitTranslate"
  /\ srv.pc = "done"
  /\ LET data == srv.out
     IN IF net = "throws"
          THEN Caught(NetworkError) /\ UNCHANGED << warning, result, pollArgs >>
        ELSE IF ~Ok(data)
          THEN /\ Caught(AppError(ErrorOr(data, "Pipeline execution failed")))
               /\ UNCHANGED << warning, result, pollArgs >>
        ELSE IF data.status = "processing" /\ data.jobId # Absent
          THEN /\ warning' = "Long audio detected. Processing (this may take a few minutes)..."
               /\ StartPolling(data.jobId, data.fileName)
               /\ UNCHANGED << isLoading, error, result >>
        ELSE /\ result' = data
             /\ isLoading' = FALSE
             /\ clientPc' = "idle"
             /\ request' = NoRequest
             /\ srv' = IdleHandler
             /\ UNCHANGED << error, warning, pollArgs >>
  /\ UNCHANGED << audioFile, targetLanguage, job >>
  /\ UNCHANGED recorder

\* processTranslate, bypass step 1 answered: then the browser uploads directly
processTranslateInitiated(net) ==
  /\ clientPc = "awaitInitiate"
  /\ srv.pc = "done"
  /\ LET initRes == srv.out
     IN IF net = "throws"
          THEN Caught(NetworkError) /\ UNCHANGED << warning, pollArgs >>
        ELSE IF ~Ok(initRes)
          THEN /\ Caught(AppError("Failed to initiate cloud upload"))
               /\ UNCHANGED << warning, pollArgs >>
        ELSE /\ warning' = "Uploading securely to cloud server..."
             /\ pollArgs' = [pollArgs EXCEPT !.jobId = initRes.jobId]
             /\ clientPc' = "uploading"
             /\ request' = NoRequest
             /\ srv' = IdleHandler
             /\ UNCHANGED << isLoading, error >>
  /\ UNCHANGED << audioFile, targetLanguage, result, job >>
  /\ UNCHANGED recorder

\* processTranslate, bypass step 2: the PUT to the upload URL ends; then the
\* route is asked to start the job
processTranslateUploaded(net, ok) ==
  /\ clientPc = "uploading"
  /\ IF net = "throws"
       THEN Caught(NetworkError) /\ UNCHANGED << warning, job >>
     ELSE IF ~ok
       THEN /\ Caught(AppError("Failed to upload audio to cloud storage."))
            /\ UNCHANGED << warning, job >>
     ELSE /\ warning' = "Starting translation pipeline..."
          /\ job' = IF job.id = pollArgs.jobId THEN [job EXCEPT !.uploaded = TRUE] ELSE job
          /\ request' = Request("start", NoFile, "", pollArgs.jobId, NoName)
          /\ clientPc' = "awaitStart"
          /\ UNCHANGED << isLoading, error, srv >>
  /\ UNCHANGED << audioFile, targetLanguage, result, pollArgs >>
  /\ UNCHANGED recorder

\* processTranslate, bypass step 3 answered: then polling starts
processTranslateStarted(net) ==
  /\ clientPc = "awaitStart"
  /\ srv.pc = "done"
  /\ IF net = "throws"
       THEN Caught(NetworkError) /\ UNCHANGED << warning, pollArgs >>
     ELSE IF ~Ok(srv.out)
       THEN /\ Caught(AppError("Failed to start the batch translation job."))
            /\ UNCHANGED << warning, pollArgs >>
     ELSE /\ warning' = "Processing (this may take a few minutes for large files)..."
          /\ StartPolling(pollArgs.jobId, ClientFileName(audioFile))
          /\ UNCHANGED << isLoading, error >>
  /\ UNCHANGED << audioFile, targetLanguage, result, job >>
  /\ UNCHANGED recorder

\* a poll without the else branch that sets the timer: whatever is not
\* completed is reported as failed
PollVerdict_NoRetry(data) ==
  IF data.status = "completed" THEN "completed" ELSE "failed"

\* poll, lines 173-184: what the status of a 2xx answer leads to
PollVerdict(data) ==
  IF data.status = "completed" THEN "completed"
  ELSE IF data.status = "failed" THEN "failed"
  ELSE "again"

\* poll: from the check-job answer on
pollResponse(net) ==
  /\ clientPc = "awaitPoll"
  /\ srv.pc = "done"
  /\ LET data == srv.out
     IN IF net = "throws"
          THEN Caught(NetworkError) /\ UNCHANGED << warning, result, pollArgs >>
        ELSE IF ~Ok(data)
          THEN /\ Caught(AppError(ErrorOr(data, "Status check failed")))
               /\ UNCHANGED << warning, result, pollArgs >>
        ELSE IF PollVerdict(data) = "completed"
          THEN /\ result' = data
               /\ isLoading' = FALSE
               /\ error' = NoError
               /\ warning' = Absent
               /\ clientPc' = "idle"
               /\ request' = NoRequest
               /\ srv' = IdleHandler
               /\ UNCHANGED pollArgs
        ELSE IF PollVerdict(data) = "failed"
          THEN /\ Caught(ErrText("Batch processing failed", data.error, "asWritten"))
               /\ UNCHANGED << warning, result, pollArgs >>
        \* still processing: setTimeout(poll, 10000)
        ELSE /\ clientPc' = "pollTimer"
             /\ pollArgs' = [pollArgs EXCEPT !.timer = PollIntervalMs]
             /\ request' = NoRequest
             /\ srv' = IdleHandler
             /\ UNCHANGED << isLoading, error, warning, result >>
  /\ UNCHANGED << audioFile, targetLanguage, job >>
  /\ UNCHANGED recorder

\* the 10-second timer fires: poll() again
pollTimer ==
  /\ clientPc = "pollTimer"
  /\ request' = Request("check-job", NoFile, pollArgs.targetLanguage, pollArgs.jobId,
                        pollArgs.fileName)
  /\ clientPc' = "awaitPoll"
  /\ pollArgs' = [pollArgs EXCEPT !.timer = 0]
  /\ UNCHANGED << audioFile, targetLanguage, isLoading, error, warning, result,
                  srv, job >>
  /\ UNCHANGED recorder

(************************ text chunking in the routes ***********************)

\* text.match(pattern) || [fallback]: the matched substrings in order, and
\* the fallback alone when nothing matches
ChunkTexts(text, maxLen, Term, fallback) ==
  LET m == RegexMatchAll(text, maxLen, Term)
  IN IF m = << >> THEN << fallback >>
     ELSE [i \in 1..Len(m) |-> Substring(text, m[i].from, m[i].to)]

\* a stage that sends every chunk, the blank ones as empty texts
ValidChunks_KeepsBlank(chunks) == [i \in 1..Len(chunks) |-> Trim(chunks[i])]

\* chunks.filter((c) => c.trim()), each then sent as chunk.trim()
ValidChunks(chunks) ==
  LET NonBlank(c) == Trim(c) # EmptyText
      kept == SelectSeq(chunks, NonBlank)
  IN [i \in 1..Len(kept) |-> Trim(kept[i])]

\* originalText.match(/[\s\S]{1,1900}(?:\.|\n|\s|$)/g) || [originalText]
TranslateChunks(originalText) ==
  ChunkTexts(originalText, TranslateCeiling, SentenceTerminators, originalText)

\* translatedText.match(/[\s\S]{1,N}(\s|$)/g) || [translatedText.substring(0, ceiling)]
SpeechChunks(translatedText, chunkLen, ceiling) ==
  ChunkTexts(translatedText, chunkLen, WhitespaceTerminators,
             Substring(translatedText, 1, ceiling))

(****************** the stages shared by the two routes *********************)

\* outcomes of a provider call: a 2xx answer with a JSON body, or an error
\* (a non-2xx answer or a failed fetch), which the wrapper throws
Answer(body) == [ok |-> TRUE, body |-> body, msg |-> NoError]
Failure(msg) == [ok |-> FALSE, body |-> << >>, msg |-> msg]

\* The repository holds two versions of each route.  The older ones
\* ("legacy": src/app/api/check-job/route.ts and the first POST handler) await
\* their chunk calls one after the other, do not catch the same-language
\* error and have the speech ceiling 500; the newer ones ("full") use
\* Promise.all, catch the same-language error and have the ceiling 2500.
Variants == {"legacy", "full"}
IsLegacy(s) == s.variant = "legacy"

SpeechCeilingOf(s) == IF IsLegacy(s) THEN LegacySpeechCeiling ELSE SpeechCeiling
SpeechChunkLenOf(s) == IF IsLegacy(s) THEN LegacySpeechChunkLen ELSE SpeechChunkLen

\* a catch block that reports the job as still being processed
Fail_ReportsProcessing(s, msg) ==
  Return(s, Response(200, "processing", Absent, NoName, EmptyText, EmptyText, EmptyString,
                     Absent, Absent, msg))
\* a catch block that answers as handleBatchFallback answers a started job
Fail_AnswersHandle(s, msg) ==
  Return(s, Response(200, "processing", s.jobId, s.fileName, EmptyText, EmptyText,
                     EmptyString, Absent, Absent, NoError))
\* the catch block of a route: a 500 response carrying the error text
Fail(s, msg) ==
  Return(s, ErrorResponse(500, IF s.handler = "check-job" THEN "Status check failed"
                               ELSE "Translation failed", msg))

\* an answer that carries the first audio part instead of the merged audio
Completed_Unmerged(s) ==
  IF s.handler = "form" /\ Len(s.audioParts) = 0
    THEN Fail(s, AppError("Text-to-Speech failed. Result was empty."))
  ELSE Return(s, Response(200, IF s.handler = "check-job" THEN "completed" ELSE Absent,
                          Absent, NoName, s.originalText, s.translatedText,
                          s.audioParts[1], s.warningMessage, Absent, NoError))
\* merge the audio parts and answer (translate-audio: lines 653-666,
\* check-job: lines 184-192)
Completed(s) ==
  IF s.handler = "form" /\ Len(s.audioParts) = 0
    THEN Fail(s, AppError("Text-to-Speech failed. Result was empty."))
  ELSE IF MergeOutcome(s.audioParts).threw
    THEN Fail(s, AppError("Failed to merge WAV base64 arrays"))
  ELSE Return(s, Response(200, IF s.handler = "check-job" THEN "completed" ELSE Absent,
                          Absent, NoName, s.originalText, s.translatedText,
                          mergeWavBase64(s.audioParts), s.warningMessage, Absent, NoError))

\* Step 3, text-to-speech: the text whole, or its non-blank trimmed chunks
\* when it is longer than the ceiling; the calls that are issued at once
DispatchSpeech(s) ==
  LET queue == IF TextLen(s.translatedText) > SpeechCeilingOf(s)
                 THEN ValidChunks(SpeechChunks(s.translatedText, SpeechChunkLenOf(s),
                                               SpeechCeilingOf(s)))
                 ELSE << s.translatedText >>
      issued == IF s.sequential THEN Min(1, Len(queue)) ELSE Len(queue)
      t == [s EXCEPT !.pc = "settle", !.stage = "speech", !.queue = queue,
                     !.pending = 1..issued, !.base = Len(s.calls),
                     !.audioParts = [i \in 1..Len(queue) |-> EmptyString],
                     !.calls = @ \o [i \in 1..issued |->
                                       TtsCall(queue[i], s.targetLanguage, s.speakerConfig)]]
  IN IF queue = << >> THEN Completed(t) ELSE t

\* the translated text is known: translate-audio rejects an empty one
\* (lines 626-628), then speech starts
Translated(s, text, warningMessage) ==
  LET t == [s EXCEPT !.translatedText = text, !.warningMessage = warningMessage,
                     !.pending = {}]
  IN IF s.handler = "form" /\ text = EmptyText
       THEN Fail(t, AppError("Translation failed. Result was empty."))
     ELSE DispatchSpeech(t)

\* the routes whose translate step catches the same-language error
ToleratesSameLanguage(s) == ~IsLegacy(s)

\* a catch that takes every translate error for the same-language error
IsSameLanguage_AnyError(msg) == TRUE
\* err.message.includes("Source and target languages must be different")
IsSameLanguage(msg) == Includes(msg, SameLanguagePhrase)

\* a check-job handler that chunks every transcript
ChunksTranslation_Always(s) == s.handler = "check-job"
\* Step 2, translate: translate-audio sends the transcript whole; check-job
\* chunks a transcript longer than the ceiling
ChunksTranslation(s) ==
  s.handler = "check-job" /\ TextLen(s.originalText) > TranslateCeiling

DispatchTranslation(s) ==
  LET queue == IF ChunksTranslation(s)
                 THEN ValidChunks(TranslateChunks(s.originalText))
                 ELSE << s.originalText >>
      issued == IF s.sequential THEN Min(1, Len(queue)) ELSE Len(queue)
      t == [s EXCEPT !.pc = "settle", !.stage = "translate", !.queue = queue,
                     !.pending = 1..issued, !.base = Len(s.calls),
                     !.translatedChunks = [i \in 1..Len(queue) |-> EmptyText],
                     !.calls = @ \o [i \in 1..issued |->
                                       TranslateCall(queue[i], s.targetLanguage,
                                                     s.languageCode, s.speakerConfig)]]
  IN IF queue = << >> THEN Translated(t, EmptyText, Absent) ELSE t

(************************* translate-audio route ****************************)

\* the File's name as the route sees it: a Blob appended to FormData without
\* a file name arrives named "blob"
FormFileName(file) == IF file.name = NoName THEN << "blob" >> ELSE file.name

\* a route that compared against 2 MB, the figure its comment mentions
ExceedsBatchThreshold_TwoMiB(size) == size > 2 * BytesPerMiB

\* audioSizeMB > 1.0, with audioSizeMB = audioFile.size / (1024 * 1024)
ExceedsBatchThreshold(size) == size > RouteBatchMiB * BytesPerMiB

\* the same test without toLowerCase()
IsDurationExceeded_CaseSensitive(msg) ==
  Includes(msg, DurationPhrase) \/ Includes(msg, TooLongPhrase)
\* a test that takes every speech-to-text failure for a duration error
IsDurationExceeded_AnySttFailure(msg) == msg.src = "stt"

\* errStr.toLowerCase().includes("duration greater than 30 seconds") ||
\* errStr.toLowerCase().includes("too long")
IsDurationExceeded(msg) ==
  LowerCaseIncludes(msg, DurationPhrase) \/ LowerCaseIncludes(msg, TooLongPhrase)

\* POST, up to its first remote call: the JSON actions of the bypass, or the
\* form with the routing decision
POST ==
  /\ request.kind \in {"form", "initiate", "start"}
  /\ srv.pc = "idle"
  /\ \E v \in Variants :
     srv' =
       IF request.kind = "initiate"
         THEN [IdleHandler EXCEPT !.handler = "initiate", !.pc = "initiateBatchJob",
                                  !.fileName = request.fileName]
       ELSE IF request.kind = "start"
         THEN [IdleHandler EXCEPT !.handler = "start", !.pc = "startBatchJob",
                                  !.jobId = request.jobId]
       ELSE IF request.file = NoFile
         THEN Return(IdleHandler, ErrorResponse(400, "No audio file provided", NoError))
       ELSE IF request.targetLanguage = ""
         THEN Return(IdleHandler, ErrorResponse(400, "No target language provided", NoError))
       ELSE [IdleHandler EXCEPT
               !.handler = "form", !.variant = v, !.sequential = (v = "legacy"),
               !.size = request.file.size,
               !.fileName = FormFileName(request.file),
               !.targetLanguage = request.targetLanguage,
               !.languageCode = "hi-IN",
               !.pc = IF ExceedsBatchThreshold(request.file.size)
                        THEN "initiateBatchJob" ELSE "speechToText"]
  /\ UNCHANGED << audioFile, targetLanguage, isLoading, error, warning, result,
                  clientPc, pollArgs, request, job >>
  /\ UNCHANGED recorder

\* Step 1: speechToText returns or throws; a duration error falls back to the
\* batch path, any other error and an empty transcript end the request; then
\* the speaker is chosen and the translation is sent
speechToText(o, draws) ==
  /\ srv.pc = "speechToText"
  /\ LET s == [srv EXCEPT !.calls = Append(@, Replied(SttCall(srv.size), o))]
     IN srv' =
          IF ~o.ok
            THEN IF IsDurationExceeded(o.msg)
                   THEN [s EXCEPT !.pc = "initiateBatchJob", !.viaSttError = TRUE]
                   ELSE Fail(s, o.msg)
          ELSE IF SttText(o.body) = EmptyText
            THEN Fail(s, AppError("Could not transcribe audio. Result was empty."))
          ELSE DispatchTranslation(
                 [s EXCEPT !.originalText = SttText(o.body),
                           !.languageCode = SttLanguage(o.body),
                           !.speakerConfig = getRandomSpeakerConfig(draws)])
  /\ UNCHANGED << audioFile, targetLanguage, isLoading, error, warning, result,
                  clientPc, pollArgs, request, job >>
  /\ UNCHANGED recorder

\* results pushed to the array as the calls complete
ResultSlot_CompletionOrder(s, i) == Len(s.queue) - Cardinality(s.pending) + 1
\* Promise.all (and the push after each await of the older loops): the
\* result of the i-th call is the i-th element
ResultSlot(s, i) == i

\* a translateText call settles
translateText(i, o) ==
  /\ srv.pc = "settle"
  /\ srv.stage = "translate"
  /\ i \in srv.pending
  /\ LET s == [srv EXCEPT !.calls[srv.base + i] = Replied(@, o)]
         chunks == [s.translatedChunks EXCEPT ![ResultSlot(s, i)] = TranslatedText(o.body)]
         next == IF s.sequential /\ i < Len(s.queue) THEN {i + 1} ELSE {}
         t == [s EXCEPT !.translatedChunks = chunks,
                        !.pending = (@ \ {i}) \cup next,
                        !.calls = @ \o [k \in 1..Cardinality(next) |->
                                          TranslateCall(s.queue[i + 1], s.targetLanguage,
                                                        s.languageCode, s.speakerConfig)]]
     IN srv' =
          IF o.ok
            THEN IF t.pending = {} THEN Translated(t, JoinSpace(chunks), s.warningMessage)
                 ELSE t
          ELSE IF ToleratesSameLanguage(s) /\ IsSameLanguage(o.msg)
            THEN Translated(s, s.originalText,
                            "Please change language, it is the same as the uploaded audio.")
          ELSE Fail(s, o.msg)
  /\ UNCHANGED << audioFile, targetLanguage, isLoading, error, warning, result,
                  clientPc, pollArgs, request, job >>
  /\ UNCHANGED recorder

\* a textToSpeech call settles
textToSpeech(i, o) ==
  /\ srv.pc = "settle"
  /\ srv.stage = "speech"
  /\ i \in srv.pending
  /\ LET s == [srv EXCEPT !.calls[srv.base + i] = Replied(@, o)]
         next == IF s.sequential /\ i < Len(s.queue) THEN {i + 1} ELSE {}
         t == [s EXCEPT !.audioParts = [@ EXCEPT ![ResultSlot(s, i)] = SpeechAudio(o.body)],
                        !.pending = (@ \ {i}) \cup next,
                        !.calls = @ \o [k \in 1..Cardinality(next) |->
                                          TtsCall(s.queue[i + 1], s.targetLanguage,
                                                  s.speakerConfig)]]
     IN srv' =
          IF o.ok
            THEN IF t.pending = {} THEN Completed(t) ELSE t
          ELSE Fail(s, o.msg)
  /\ UNCHANGED << audioFile, targetLanguage, isLoading, error, warning, result,
                  clientPc, pollArgs, request, job >>
  /\ UNCHANGED recorder

\* the errors the job wrappers of sarvam.ts throw
InitiateFailed == ErrText("app", "Failed to initiate batch job", "asWritten")
UploadUrlFailed == ErrText("app", "Failed to get upload URL", "asWritten")
UploadFailed == ErrText("app", "Failed to upload to Azure", "asWritten")
StartFailed == ErrText("app", "Failed to start batch job", "asWritten")

\* the JSON answers of the bypass actions and of handleBatchFallback
InitiatedResponse(jobId) ==
  [Response(200, Absent, jobId, NoName, EmptyText, EmptyText, EmptyString, Absent, Absent,
            NoError) EXCEPT !.uploadUrl = jobId]
JobHandle(jobId, fileName) ==
  Response(200, "processing", jobId, fileName, EmptyText, EmptyText, EmptyString, Absent,
           Absent, NoError)

\* initiateBatchJob: the provider creates a job and names it, or the call throws
initiateBatchJob(ok, id) ==
  /\ srv.pc = "initiateBatchJob"
  /\ LET s == [srv EXCEPT !.calls = Append(@, Ended(JobCall("initiateBatchJob", "", srv.fileName, 0),
                                                ok, InitiateFailed))]
     IN IF ok
          THEN /\ srv' = [s EXCEPT !.pc = "getUploadUrl", !.jobId = id]
               /\ job' = [id |-> id, state |-> "Accepted", uploaded |-> FALSE]
          ELSE /\ srv' = Fail(s, InitiateFailed)
               /\ UNCHANGED job
  /\ UNCHANGED << audioFile, targetLanguage, isLoading, error, warning, result,
                  clientPc, pollArgs, request >>
  /\ UNCHANGED recorder

\* getUploadUrl: the bypass answers with the job id and the upload URL,
\* handleBatchFallback goes on to upload
getUploadUrl(ok) ==
  /\ srv.pc = "getUploadUrl"
  /\ LET s == [srv EXCEPT !.calls = Append(@, Ended(JobCall("getUploadUrl", srv.jobId, srv.fileName, 0),
                                                ok, UploadUrlFailed))]
     IN srv' = IF ~ok THEN Fail(s, UploadUrlFailed)
               ELSE IF s.handler = "initiate" THEN Return(s, InitiatedResponse(s.jobId))
               ELSE [s EXCEPT !.pc = "uploadToAzure"]
  /\ UNCHANGED << audioFile, targetLanguage, isLoading, error, warning, result,
                  clientPc, pollArgs, request, job >>
  /\ UNCHANGED recorder

\* uploadToAzure(uploadUrl, buffer, mimeType): the buffered bytes of the request
uploadToAzure(ok) ==
  /\ srv.pc = "uploadToAzure"
  /\ LET s == [srv EXCEPT !.calls = Append(@, Ended(JobCall("uploadToAzure", srv.jobId, srv.fileName,
                                                        srv.size), ok, UploadFailed))]
     IN IF ok
          THEN /\ srv' = [s EXCEPT !.pc = "startBatchJob"]
               /\ job' = IF job.id = s.jobId THEN [job EXCEPT !.uploaded = TRUE] ELSE job
          ELSE /\ srv' = Fail(s, UploadFailed)
               /\ UNCHANGED job
  /\ UNCHANGED << audioFile, targetLanguage, isLoading, error, warning, result,
                  clientPc, pollArgs, request >>
  /\ UNCHANGED recorder

\* startBatchJob: the provider marks the job runnable, or the call throws
startBatchJob(ok) ==
  /\ srv.pc = "startBatchJob"
  /\ LET s == [srv EXCEPT !.calls = Append(@, Ended(JobCall("startBatchJob", srv.jobId, NoName, 0),
                                                ok, StartFailed))]
     IN IF ok
          THEN /\ srv' = Return(s, JobHandle(s.jobId, s.fileName))
               /\ job' = IF job.id = s.jobId /\ job.state = "Accepted"
                           THEN [job EXCEPT !.state = "Pending"] ELSE job
          ELSE /\ srv' = Fail(s, StartFailed)
               /\ UNCHANGED job
  /\ UNCHANGED << audioFile, targetLanguage, isLoading, error, warning, result,
                  clientPc, pollArgs, request >>
  /\ UNCHANGED recorder

\* the provider works on a started job
JobProgress ==
  /\ job.state \in {"Pending", "Running"}
  /\ \E next \in {"Running", "Completed", "Failed"} :
       /\ next # job.state
       /\ job' = [job EXCEPT !.state = next]
  /\ UNCHANGED << audioFile, targetLanguage, isLoading, error, warning, result,
                  clientPc, pollArgs, request, srv >>
  /\ UNCHANGED recorder

(***************************** check-job route ******************************)

\* status.job_details, as far as the route reads it: per input file a state
\* and the file names of its outputs (<< >> for a missing or empty name)
JobDetail(state, outputs) == [state |-> state, outputs |-> outputs]
JobDetailsChoices ==
  { << >>,
    << JobDetail("Failed", << << "9", "json" >> >>),
       JobDetail("Success", << NoName, << "1", "json" >>, << "2", "json" >> >>) >> }

StatusBody(jobState, details, err) ==
  [job_state |-> jobState, job_details |-> details, error |-> err]

\* lines 32-50: the output file names of the entries with state "Success"
RECURSIVE SuccessOutputs(_, _)
SuccessOutputs(details, k) ==
  IF k = 0 THEN << >>
  ELSE LET Named(n) == n # NoName
       IN SuccessOutputs(details, k - 1)
          \o (IF details[k].state = "Success"
                THEN SelectSeq(details[k].outputs, Named) ELSE << >>)

\* fileName.replace(/\.[^.]+$/, ""): a last segment that follows a dot and is
\* not empty is removed with its dot
BaseName(fileName) ==
  IF Len(fileName) >= 2 /\ fileName[Len(fileName)] # ""
    THEN SubSeq(fileName, 1, Len(fileName) - 1)
    ELSE fileName

\* candidate files that start with the guessed names
OutputFileNames_GuessesFirst(status, fileName) ==
  << Append(BaseName(fileName), "json"), fileName >>
  \o SuccessOutputs(status.job_details, Len(status.job_details))
\* lines 32-57: the candidate result files
OutputFileNames(status, fileName) ==
  LET named == SuccessOutputs(status.job_details, Len(status.job_details))
  IN IF Len(named) = 0
       THEN << Append(BaseName(fileName), "json"), fileName >>
       ELSE named

\* the JSON of the result file, as far as the route reads it: an object with
\* its candidate fields, or an array of entries with transcript and text
ResultBody(items, transcript, text, dataText, resultText, lang) ==
  [isArray |-> FALSE, items |-> items, transcript |-> transcript, text |-> text,
   dataText |-> dataText, resultText |-> resultText, language_code |-> lang]
ResultArray(items) ==
  [ResultBody(items, EmptyText, EmptyText, EmptyText, EmptyText, Absent)
     EXCEPT !.isArray = TRUE]
ResultItem(transcript, text) == [transcript |-> transcript, text |-> text]

\* lines 94-101
ResultText(resultData) ==
  LET direct == FirstNonEmpty(<< resultData.transcript, resultData.text,
                                 resultData.dataText, resultData.resultText >>)
      items == resultData.items
  IN IF direct # EmptyText THEN direct
     ELSE IF resultData.isArray
       THEN JoinSpace([i \in 1..Len(items) |->
                         FirstNonEmpty(<< items[i].transcript, items[i].text >>)])
     ELSE EmptyText

\* result files the storage can hold
ResultBodies ==
  {ResultBody(<< >>, t, EmptyText, EmptyText, EmptyText, Absent) :
     t \in {EmptyText, Letters(5), Letters(TranslateCeiling + 1), << Run("sp", 3) >>,
            << Run("a", TranslateCeiling), Run(".", 1), Run("a", 3) >>,
            << Run("a", 1000), Run("sp", 1), Run("a", 1000) >>,
            << Run("a", TranslateCeiling), Run(".", 1), Run("sp", 1) >>}}
  \cup {ResultBody(<< >>, EmptyText, EmptyText, Letters(7), Letters(8), "ta-IN"),
        ResultArray(<< ResultItem(Letters(5), Letters(6)), ResultItem(EmptyText, Letters(6)) >>),
        ResultArray(<< ResultItem(EmptyText, EmptyText), ResultItem(EmptyText, EmptyText) >>),
        ResultArray(<< ResultItem(Letters(5), EmptyText), ResultItem(EmptyText, EmptyText) >>)}

\* download URL lists getDownloadUrls can extract
UrlLists == {<< >>, << "url-1", "url-2" >>}

\* a "failed" answer that always carries the default text
PollResponse_DefaultText(status, err) ==
  Response(200, status, Absent, NoName, EmptyText, EmptyText, EmptyString, Absent,
           IF status = "failed" THEN "Batch job failed" ELSE err, NoError)
\* the answers of a poll that found the job failed or still running
PollResponse(status, err) ==
  Response(200, status, Absent, NoName, EmptyText, EmptyText, EmptyString, Absent, err,
           NoError)

\* GET, up to its first remote call
GET ==
  /\ request.kind = "check-job"
  /\ srv.pc = "idle"
  /\ \E v \in Variants :
       srv' = IF request.jobId = "" \/ request.targetLanguage = "" \/ request.fileName = NoName
                THEN Return(IdleHandler,
                            ErrorResponse(400, "Missing jobId, targetLanguage, or fileName",
                                          NoError))
              ELSE [IdleHandler EXCEPT !.handler = "check-job", !.variant = v,
                                       !.sequential = (v = "legacy"),
                                       !.jobId = request.jobId,
                                       !.fileName = request.fileName,
                                       !.targetLanguage = request.targetLanguage,
                                       !.pc = "getBatchJobStatus"]
  /\ UNCHANGED << audioFile, targetLanguage, isLoading, error, warning, result,
                  clientPc, pollArgs, request, job >>
  /\ UNCHANGED recorder

\* a test that takes every state but Failed for a finished job
JobIsCompleted_NotFailed(status) == status.job_state # "Failed"
\* status.job_state === "Completed"
JobIsCompleted(status) == status.job_state = "Completed"

\* getBatchJobStatus, and what the route does with the state
getBatchJobStatus(o) ==
  /\ srv.pc = "getBatchJobStatus"
  /\ o.ok => o.body.job_state = job.state
  /\ LET s == [srv EXCEPT !.calls =
                        Append(@, [Ended(JobCall("getBatchJobStatus", srv.jobId, NoName, 0),
                                         o.ok, o.msg)
                                     EXCEPT !.state = IF o.ok THEN o.body.job_state ELSE "",
                                            !.reply = IF o.ok /\ o.body.job_state = "Completed"
                                                        THEN o.body.job_details ELSE Absent,
                                            !.detail = IF o.ok /\ o.body.job_state = "Failed"
                                                         THEN o.body.error ELSE Absent])]
         status == o.body
     IN srv' =
          IF ~o.ok THEN Fail(s, o.msg)
          ELSE IF JobIsCompleted(status)
            THEN [s EXCEPT !.pc = "getDownloadUrls",
                           !.outputFileNames = OutputFileNames(status, s.fileName),
                           !.tryIndex = 1]
          ELSE IF status.job_state = "Failed"
            THEN Return(s, PollResponse("failed", IF status.error = Absent
                                                    THEN "Batch job failed" ELSE status.error))
          ELSE Return(s, PollResponse("processing", Absent))
  /\ UNCHANGED << audioFile, targetLanguage, isLoading, error, warning, result,
                  clientPc, pollArgs, request, job >>
  /\ UNCHANGED recorder

\* a loop that gives up after its first candidate
MoreCandidates_None(s) == FALSE
\* for (const tryFileName of outputFileNames): there is a next candidate
MoreCandidates(s) == s.tryIndex < Len(s.outputFileNames)

\* lines 61-82: one turn of the loop over the candidate file names
getDownloadUrls(o) ==
  /\ srv.pc = "getDownloadUrls"
  /\ LET s == [srv EXCEPT !.calls =
                        Append(@, Replied(JobCall("getDownloadUrls", srv.jobId,
                                                  srv.outputFileNames[srv.tryIndex], 0),
                                          o))]
         urls == IF o.ok THEN o.body ELSE << >>
     IN srv' =
          IF Len(urls) > 0 THEN [s EXCEPT !.pc = "fetchResult"]
          ELSE IF MoreCandidates(s)
            THEN [s EXCEPT !.tryIndex = @ + 1]
          ELSE Fail(s, AppError("Job completed but no download URLs found."))
  /\ UNCHANGED << audioFile, targetLanguage, isLoading, error, warning, result,
                  clientPc, pollArgs, request, job >>
  /\ UNCHANGED recorder

\* lines 84-112: fetch the result file, extract the transcript, choose the
\* speaker, send the translation
fetchResult(o, draws) ==
  /\ srv.pc = "fetchResult"
  /\ LET s == [srv EXCEPT !.calls = Append(@, Replied(JobCall("fetchResult", srv.jobId, NoName, 0),
                                                       o))]
     IN srv' =
          IF ~o.ok THEN Fail(s, AppError("Failed to fetch job results from storage."))
          ELSE IF Trim(ResultText(o.body)) = EmptyText
            THEN Fail(s, AppError("Transcript not found in job results."))
          ELSE DispatchTranslation(
                 [s EXCEPT !.originalText = ResultText(o.body),
                           !.languageCode = SttLanguage(o.body),
                           !.speakerConfig = getRandomSpeakerConfig(draws)])
  /\ UNCHANGED << audioFile, targetLanguage, isLoading, error, warning, result,
                  clientPc, pollArgs, request, job >>
  /\ UNCHANGED recorder

(******************************** behaviour *********************************)

SttOutcomes == {Answer(b) : b \in SttBodies} \cup {Failure(m) : m \in SttErrorTexts}
TranslateOutcomes ==
  {Answer(b) : b \in TranslateBodies} \cup {Failure(m) : m \in TranslateErrorTexts}
TtsOutcomes == {Answer(b) : b \in TtsBodies} \cup {Failure(TtsErrorText)}
StatusOutcomes ==
  {Answer(StatusBody(st, d, e)) :
     st \in {"Accepted", "Pending", "Running", "Completed", "Failed"},
     d \in JobDetailsChoices, e \in {Absent, "provider detail"}}
  \cup {Failure(ErrText("app", "Failed to get job status", "asWritten"))}
UrlOutcomes ==
  {Answer(u) : u \in UrlLists}
  \cup {Failure(ErrText("app", "Failed to get download URLs", "asWritten"))}
ResultOutcomes ==
  {Answer(b) : b \in ResultBodies} \cup {Failure(NoError)}

Next ==
  \/ \E f \in AudioFiles : handleAudioCapture(f)
  \/ clearAudio
  \/ \E l \in TargetLanguages : setTargetLanguage(l)
  \/ processTranslate
  \/ \E net \in FetchEnds : processTranslateResponse(net)
  \/ \E net \in FetchEnds : processTranslateInitiated(net)
  \/ \E net \in FetchEnds, ok \in BOOLEAN : processTranslateUploaded(net, ok)
  \/ \E net \in FetchEnds : processTranslateStarted(net)
  \/ \E net \in FetchEnds : pollResponse(net)
  \/ pollTimer
  \/ POST
  \/ \E o \in SttOutcomes, d \in RandomDraws : speechToText(o, d)
  \/ \E i \in 1..MaxChunks, o \in TranslateOutcomes : translateText(i, o)
  \/ \E i \in 1..MaxChunks, o \in TtsOutcomes : textToSpeech(i, o)
  \/ \E ok \in BOOLEAN, id \in JobIds : initiateBatchJob(ok, id)
  \/ \E ok \in BOOLEAN : getUploadUrl(ok)
  \/ \E ok \in BOOLEAN : uploadToAzure(ok)
  \/ \E ok \in BOOLEAN : startBatchJob(ok)
  \/ JobProgress
  \/ GET
  \/ \E o \in StatusOutcomes : getBatchJobStatus(o)
  \/ \E o \in UrlOutcomes : getDownloadUrls(o)
  \/ \E o \in ResultOutcomes, d \in RandomDraws : fetchResult(o, d)

Spec == Init /\ [][Next]_vars

(******************** the merge step, taken on its own **********************)

\* A handler that stands before mergeWavBase64(audioParts) with any audio
\* parts the synthesize calls can have returned: well-formed clips, a clip in
\* a non-canonical base64 spelling, a bare header with stale size fields and
\* two channels, a buffer one byte short of a header, the empty string, and
\* a value that is no string.
MaxParts == 3
HeaderOnly == B64([WavHeader(7) EXCEPT ![23] = 2], TRUE)
ShortClip == B64(SubSeq(WavHeader(0), 1, WavHeaderLen - 1), TRUE)
MergeInputs ==
  {ClipA, ClipB, B64(Base64Decode(ClipA), FALSE), HeaderOnly, ShortClip, EmptyString,
   NotAString}
AudioArrays == UNION {[1..n -> MergeInputs] : n \in 0..MaxParts}

InitMerge ==
  /\ audioFile = NoFile
  /\ targetLanguage = "hi-IN"
  /\ isLoading = TRUE
  /\ error = NoError
  /\ warning = Absent
  /\ result = NoResponse
  /\ clientPc = "awaitPoll"
  /\ pollArgs = NoPoll
  /\ request = NoRequest
  /\ job = NoJob
  /\ recorder = IdleRecorder
  /\ \E parts \in AudioArrays :
       srv = [IdleHandler EXCEPT !.handler = "check-job", !.variant = "full",
                                 !.stage = "speech", !.pc = "merge",
                                 !.audioParts = parts]

\* const mergedAudioBase64 = mergeWavBase64(audioParts), and the response
mergeAudio ==
  /\ srv.pc = "merge"
  /\ srv' = Completed(srv)
  /\ UNCHANGED << audioFile, targetLanguage, isLoading, error, warning, result,
                  clientPc, pollArgs, request, job >>
  /\ UNCHANGED recorder

NextMerge == mergeAudio
SpecMerge == InitMerge /\ [][NextMerge]_vars

(************************ the recorder, on its own **************************)

\* setInterval callback: if (prev >= 599) { stopRecording(); return 600; }
AutoStopAt == 599
MaxDuration == 600
\* the seconds of recording that are followed
MaxSeconds == 603

\* stopRecording of a render whose isRecording is the given one: it stops
\* the MediaRecorder, which queues its stop event, and clears the interval,
\* if (mediaRecorderRef.current && isRecording); otherwise it does nothing
stopRecording(r, isRecordingSeen) ==
  IF r.mediaRecorder # "none" /\ isRecordingSeen
    THEN [r EXCEPT !.mediaRecorder = "inactive", !.stopEvent = TRUE,
                   !.isRecording = FALSE, !.timer = FALSE]
  ELSE r

\* startRecording of a render whose isRecording is the given one: a refused
\* microphone ends in the alert; otherwise the MediaRecorder starts and the
\* interval is set, whose callback calls the stopRecording of this render
startRecording(r, isRecordingSeen, granted) ==
  IF ~granted THEN r
  ELSE [r EXCEPT !.mediaRecorder = "recording", !.isRecording = TRUE,
                 !.recordingDuration = 0, !.timer = TRUE,
                 !.stopSeesRecording = isRecordingSeen, !.seconds = 0]

\* the button, disabled on disabled && !isRecording: toggleRecording of the
\* current render
toggleRecording(granted) ==
  /\ recorder.mounted
  /\ ~(isLoading /\ ~recorder.isRecording)
  /\ ~recorder.stopEvent
  /\ recorder' = IF recorder.isRecording
                   THEN stopRecording(recorder, recorder.isRecording)
                 ELSE startRecording(recorder, recorder.isRecording, granted)
  /\ UNCHANGED << audioFile, targetLanguage, isLoading, error, warning, result,
                  clientPc, pollArgs, request, srv, job >>

\* a second passes: the MediaRecorder records on, and the interval, if set,
\* runs its callback
second ==
  /\ recorder.timer \/ recorder.mediaRecorder = "recording"
  /\ recorder.seconds < MaxSeconds
  /\ LET r == [recorder EXCEPT !.seconds = IF recorder.mediaRecorder = "recording"
                                             THEN @ + 1 ELSE @]
         prev == recorder.recordingDuration
     IN recorder' =
          IF ~recorder.timer THEN r
          ELSE IF prev >= AutoStopAt
            THEN [stopRecording(r, r.stopSeesRecording) EXCEPT
                    !.recordingDuration = MaxDuration]
          ELSE [r EXCEPT !.recordingDuration = prev + 1]
  /\ UNCHANGED << audioFile, targetLanguage, isLoading, error, warning, result,
                  clientPc, pollArgs, request, srv, job >>

\* mediaRecorder.onstop: onRecordingComplete(audioBlob), which is the page's
\* handleAudioCapture
onstop(audioBlob) ==
  /\ recorder.stopEvent
  /\ audioBlob.name = NoName
  /\ recorder' = [recorder EXCEPT !.stopEvent = FALSE]
  /\ audioFile' = audioBlob
  /\ result' = NoResponse
  /\ error' = NoError
  /\ warning' = Absent
  /\ UNCHANGED << targetLanguage, isLoading, clientPc, pollArgs, request, srv, job >>

\* the recorder leaves the page (audio is captured, or the upload tab is
\* chosen): the cleanup of its effect clears the interval and stops a
\* MediaRecorder that is recording
unmount ==
  /\ recorder.mounted
  /\ recorder' = [recorder EXCEPT
                    !.mounted = FALSE, !.timer = FALSE, !.isRecording = FALSE,
                    !.mediaRecorder = IF @ = "recording" THEN "inactive" ELSE @,
                    !.stopEvent = @ \/ recorder.mediaRecorder = "recording"]
  /\ UNCHANGED << audioFile, targetLanguage, isLoading, error, warning, result,
                  clientPc, pollArgs, request, srv, job >>

\* the recorder is rendered again, with fresh state and refs
mount ==
  /\ ~recorder.mounted
  /\ audioFile = NoFile
  /\ ~recorder.stopEvent
  /\ recorder' = IdleRecorder
  /\ UNCHANGED << audioFile, targetLanguage, isLoading, error, warning, result,
                  clientPc, pollArgs, request, srv, job >>

NextRecorder ==
  \/ \E granted \in BOOLEAN : toggleRecording(granted)
  \/ second
  \/ \E b \in AudioFiles : onstop(b)
  \/ unmount
  \/ mount
  \/ clearAudio

SpecRecorder == Init /\ [][NextRecorder]_vars

(***************************************************************************)
(* Properties of the routes and of the page.                               *)
(***************************************************************************)

\* the calls of one operation the running handler has made, in order
CallsOf(op) == SelectSeq(srv.calls, LAMBDA c : c.op = op)
Made(op) == CallsOf(op) # << >>
BatchOps == <<"initiateBatchJob", "getUploadUrl", "uploadToAzure", "startBatchJob">>
OpsMade == [i \in 1..Len(srv.calls) |-> srv.calls[i].op]
IsPrefix(a, b) == Len(a) <= Len(b) /\ \A i \in 1..Len(a) : a[i] = b[i]
IsJobHandle(resp) ==
  resp.http = 200 /\ resp.status = "processing" /\ resp.jobId \in JobIds

\* C1: a request whose audio is larger than 1 MiB never reaches speechToText
\* and is served by the batch path (initiate, upload URL, upload, start); a
\* page whose audio is larger than 4 MiB never posts the form at all, so no
\* speechToText call is made anywhere in such a run.
C1_LargeAudioSkipsSpeechToText ==
  LET sttUsed == srv.pc = "speechToText" \/ Made("speechToText")
  IN /\ (isLoading /\ audioFile.size > 1 * BytesPerMiB) => ~sttUsed
     /\ (isLoading /\ audioFile.size > 4 * BytesPerMiB) => request.kind # "form"
     /\ (request.kind = "form" /\ request.file.size > 1 * BytesPerMiB /\ srv.pc # "idle")
          => /\ ~sttUsed
             /\ srv.pc \in {"initiateBatchJob", "getUploadUrl", "uploadToAzure",
                            "startBatchJob", "done"}
             /\ IsPrefix(OpsMade, BatchOps)
             /\ (srv.pc = "done" /\ srv.out.http = 200) => IsJobHandle(srv.out)

\* C1 witness: a form request just above 1 MiB answered with a job handle
C1_Witness ==
  /\ request.kind = "form"
  /\ request.file.size = 1 * BytesPerMiB + 1
  /\ srv.pc = "done"
  /\ IsJobHandle(srv.out)
  /\ OpsMade = BatchOps

\* C2 (as stated): when speechToText fails with a duration-exceeded error the
\* request does not fail: the batch sequence runs on the buffered bytes and
\* the response is a job handle with status processing.
DurationPhrases == {"duration greater than 30 seconds", "too long"}
SttFailedWith(phrases) ==
  /\ srv.handler = "form"
  /\ Made("speechToText")
  /\ CallsOf("speechToText")[1].outcome = "error"
  /\ CallsOf("speechToText")[1].err.phrase \in phrases
C2_AsStated ==
  (SttFailedWith(DurationPhrases) /\ srv.pc = "done") => IsJobHandle(srv.out)

\* C2 (amended): after a duration-exceeded speechToText failure, in either
\* letter case, the handler runs the batch sequence in order on the bytes it
\* buffered and makes no translate or synthesize call; the response is a job
\* handle with status processing when the four batch calls succeed, and
\* otherwise a 500 that carries the failed batch call's error, never the
\* duration error.
C2_DurationFallsBackToBatch ==
  SttFailedWith(DurationPhrases) =>
    /\ srv.pc \in {"initiateBatchJob", "getUploadUrl", "uploadToAzure", "startBatchJob", "done"}
    /\ IsPrefix(Tail(OpsMade), BatchOps)
    /\ \A i \in 1..Len(srv.calls) :
         srv.calls[i].op = "uploadToAzure" =>
           /\ srv.calls[i].size = request.file.size
           /\ srv.calls[i].size = CallsOf("speechToText")[1].size
    /\ srv.pc = "done" =>
         IF \A i \in 2..Len(srv.calls) : srv.calls[i].outcome = "ok"
           THEN /\ Tail(OpsMade) = BatchOps
                /\ IsJobHandle(srv.out)
                /\ srv.out.jobId = job.id
           ELSE /\ srv.out.http = 500
                /\ srv.out.details = srv.calls[Len(srv.calls)].err
                /\ srv.out.details.phrase \notin DurationPhrases

\* C2 witness: a duration error written in another letter case, answered
\* with a job handle
C2_Witness ==
  /\ SttFailedWith({"too long"})
  /\ CallsOf("speechToText")[1].err.form = "otherCase"
  /\ srv.pc = "done"
  /\ IsJobHandle(srv.out)

\* C3: a speechToText failure that is not a duration error is fatal: the
\* response is a 500 carrying that error, no batch job is created and no
\* translate or synthesize call is made.
C3_OtherSttFailureIsFatal ==
  LET sttErrors == {m.phrase : m \in SttErrorTexts}
  IN SttFailedWith(sttErrors \ DurationPhrases) =>
       /\ srv.pc = "done"
       /\ srv.out.http = 500
       /\ srv.out.details = CallsOf("speechToText")[1].err
       /\ OpsMade = << "speechToText" >>

\* C3 witness: speechToText failed with an internal error and the request
\* ended in a 500
C3_Witness ==
  /\ SttFailedWith({"internal error"})
  /\ srv.pc = "done"
  /\ srv.out.http = 500

\* the job state the status query of the running check-job handler reported
\* ("" when it has reported none)
StatusSeen ==
  LET c == CallsOf("getBatchJobStatus")
  IN IF c = << >> THEN "" ELSE c[1].state
TerminalStates == {"Completed", "Failed"}
PollAnswered == clientPc = "awaitPoll" /\ clientPc' # "awaitPoll"
Requeried ==
  /\ clientPc' = "awaitPoll"
  /\ request' = Request("check-job", NoFile, pollArgs.targetLanguage, pollArgs.jobId,
                        pollArgs.fileName)
  /\ isLoading'

\* C4 (as stated): the poll loop stops only after a Completed or a Failed
\* job status has been observed; after any other answer it waits the fixed
\* 10 seconds and queries again, with no limit on the number of queries.
C4_AsStated ==
  [][ /\ (PollAnswered /\ StatusSeen \notin TerminalStates)
          => (clientPc' = "pollTimer" /\ pollArgs'.timer = 10000)
      /\ (clientPc = "pollTimer" /\ clientPc' # "pollTimer") => Requeried ]_vars

\* C4 (amended): the poll loop stops only after a Completed or a Failed job
\* status has been observed or after a poll request has failed (the fetch
\* threw, or the route answered with an error status); after a successful
\* answer that reports a non-terminal job it sets the fixed 10-second timer,
\* the timer can always fire, and when it fires the same job is queried
\* again; nothing counts the queries.
C4_PollsUntilTerminalOrError ==
  [][ /\ (PollAnswered /\ StatusSeen \notin TerminalStates)
          => \/ clientPc' = "pollTimer" /\ pollArgs'.timer = 10000 /\ isLoading'
             \/ clientPc' = "idle" /\ ~isLoading' /\ error' = NetworkError
             \/ clientPc' = "idle" /\ ~isLoading' /\ ~Ok(srv.out) /\ error' # NoError
      /\ (PollAnswered /\ StatusSeen \notin TerminalStates /\ Ok(srv.out)
            /\ error' # NetworkError)
          => clientPc' = "pollTimer"
      /\ clientPc = "pollTimer" => ENABLED pollTimer
      /\ (clientPc = "pollTimer" /\ clientPc' # "pollTimer") => Requeried ]_vars

\* C4 witness: a poll has reported a running job and the timer is set
C4_Witness ==
  /\ clientPc = "pollTimer"
  /\ pollArgs.timer = 10000
  /\ job.state = "Running"
  /\ isLoading

\* C5 (as stated): on the fast path a transcript longer than 1900 characters
\* is split, each chunk has its own translate call and no translate call
\* carries more than 1900 characters.
C5_AsStated ==
  srv.handler = "form" =>
    /\ \A i \in 1..Len(srv.calls) :
         srv.calls[i].op = "translateText" => TextLen(srv.calls[i].text) <= 1900
    /\ (srv.stage = "translate" /\ TextLen(srv.originalText) > 1900)
         => Len(srv.queue) >= 2

\* the chunk ceiling of the text the running handler is chunking, and that text
StageCeiling ==
  IF srv.stage = "translate" THEN 1900
  ELSE IF srv.variant = "legacy" THEN 500 ELSE 2500
StageText == IF srv.stage = "translate" THEN srv.originalText ELSE srv.translatedText
\* the handler is in a stage whose text it has chunked
Chunking ==
  /\ srv.stage \in {"translate", "speech"}
  /\ srv.stage = "translate" => srv.handler = "check-job"
  /\ TextLen(StageText) > StageCeiling

\* C6 (as stated): every chunk handed to a provider call has, after
\* trimming, at most the ceiling's length: 1900 for translate chunks, the
\* synthesis ceiling for synthesize chunks.
C6_AsStated ==
  Chunking => \A k \in 1..Len(srv.queue) : TextLen(Trim(srv.queue[k])) <= StageCeiling

\* the non-whitespace characters of a text, in order
RECURSIVE Canon(_)
Canon(t) ==
  IF Len(t) <= 1 THEN t
  ELSE LET r == Canon(Tail(t))
       IN IF r[1].c = t[1].c THEN << Run(t[1].c, t[1].n + r[1].n) >> \o Tail(r)
          ELSE << t[1] >> \o r
NonWhitespace(t) == Canon(SelectSeq(t, LAMBDA r : ~IsWs(r.c)))

\* C7 (as stated): the chunks cover the text without gaps or overlaps: the
\* trimmed chunks joined with single spaces hold the non-whitespace content
\* of the text, in order, nothing dropped and nothing duplicated.
C7_AsStated ==
  Chunking => NonWhitespace(JoinSpace(srv.queue)) = NonWhitespace(StageText)

\* C8 (as stated): when the next maxLength characters hold no terminator at
\* or before the limit the chunker hard-cuts: the chunk is exactly those
\* maxLength characters and chunking goes on from the character after them.
\* For a text without any terminator the chunks are then the consecutive
\* slices of maxLength characters and the remainder.
C8_AsStated ==
  LET t == StageText
      n == TextLen(t)
      L == 1900
      count == (n + L - 1) \div L
  IN (Chunking /\ srv.stage = "translate"
        /\ \A j \in 1..Len(t) : t[j].c \notin {".", "nl", "sp"})
       => /\ Len(srv.queue) = count
          /\ \A k \in 1..count :
               srv.queue[k] = Substring(t, (k - 1) * L + 1, Min(k * L, n))

\* C9: one speaker profile per run: every synthesize call of a handler
\* carries the same speaker name and the same pace, those of the profile the
\* handler chose once for the run.
C9_OneSpeakerPerRun ==
  LET tts == CallsOf("textToSpeech")
  IN /\ \A i, j \in 1..Len(tts) :
          /\ tts[i].speaker.name = tts[j].speaker.name
          /\ tts[i].speaker.pace = tts[j].speaker.pace
     /\ \A i \in 1..Len(tts) :
          /\ tts[i].speaker = srv.speakerConfig
          /\ tts[i].speaker.name \in
               {femaleSpeakers[k] : k \in 1..Len(femaleSpeakers)}
                 \cup {maleSpeakers[k] : k \in 1..Len(maleSpeakers)}

\* C9 witness: a run answered after two synthesize calls
C9_Witness ==
  /\ srv.pc = "done"
  /\ srv.out.http = 200
  /\ Len(CallsOf("textToSpeech")) >= 2

\* C10 (as stated): on the fast path a translate failure whose text contains
\* 'Source and target languages must be different' is tolerated: the request
\* succeeds with translatedText equal to originalText and a warning; any
\* other translate failure ends the request with a 500 and no synthesize call.
C10_AsStated ==
  LET tr == CallsOf("translateText")
      failed == tr # << >> /\ tr[1].outcome = "error"
      same == failed /\ tr[1].err.phrase = "Source and target languages must be different"
                     /\ tr[1].err.form = "asWritten"
  IN srv.handler = "form" =>
       /\ (same /\ srv.pc = "done")
            => /\ srv.out.http = 200
               /\ srv.out.translatedText = srv.out.originalText
               /\ srv.out.warning # Absent
       /\ (failed /\ ~same)
            => /\ srv.pc = "done"
               /\ srv.out.http = 500
               /\ ~Made("textToSpeech")

\* C11 (as stated): in the job poller, when a translate call for the
\* completed job's transcript (the whole text or any chunk) fails with the
\* same-language error, the poll answers status completed with
\* translatedText equal to originalText and a warning, not an error.
C11_AsStated ==
  LET tr == CallsOf("translateText")
      same == \E i \in 1..Len(tr) :
                /\ tr[i].outcome = "error"
                /\ tr[i].err.phrase = "Source and target languages must be different"
                /\ tr[i].err.form = "asWritten"
  IN (srv.handler = "check-job" /\ same /\ srv.pc = "done")
       => /\ srv.out.http = 200
          /\ srv.out.status = "completed"
          /\ srv.out.translatedText = srv.out.originalText
          /\ srv.out.warning # Absent

\* the input and the output of the merge step
MergeIn == srv.audioParts
MergeOut == srv.out.audioBase64
Merged == srv.pc = "done"
\* N >= 2 buffers, each at least 44 bytes long
MergeableInput ==
  /\ Len(MergeIn) >= 2
  /\ \A i \in 1..Len(MergeIn) : IsString(MergeIn[i]) /\ Len(MergeIn[i].bytes) >= 44
RECURSIVE PayloadTotal(_, _)
PayloadTotal(parts, k) ==
  IF k = 0 THEN 0 ELSE (Len(parts[k].bytes) - 44) + PayloadTotal(parts, k - 1)
RECURSIVE PayloadBytes(_, _)
PayloadBytes(parts, k) ==
  IF k = 0 THEN << >>
  ELSE PayloadBytes(parts, k - 1) \o SubSeq(parts[k].bytes, 45, Len(parts[k].bytes))
LittleEndian(bytes, at) ==
  bytes[at + 1] + 256 * bytes[at + 2] + 65536 * bytes[at + 3] + 16777216 * bytes[at + 4]

\* C12: for N >= 2 buffers of at least 44 bytes the merged output is 44 bytes
\* plus the sum of the inputs' lengths beyond 44; its field at offset 40
\* holds that sum and its field at offset 4 holds that sum + 36, both as
\* 32-bit little-endian numbers.
C12_MergedSizes ==
  (Merged /\ MergeableInput) =>
    LET out == MergeOut.bytes
        sum == PayloadTotal(MergeIn, Len(MergeIn))
    IN /\ srv.out.http = 200
       /\ Len(out) = 44 + sum
       /\ LittleEndian(out, 40) = sum
       /\ LittleEndian(out, 4) = sum + 36

\* C12 witness: three clips with payloads of 2, 1 and 0 bytes merged
C12_Witness ==
  /\ Merged
  /\ MergeIn = << ClipA, ClipB, HeaderOnly >>
  /\ Len(MergeOut.bytes) = 47

\* C13: for N >= 2 buffers of at least 44 bytes the output's bytes after the
\* header are the inputs' bytes from offset 44 on, concatenated in input
\* order, and the header is the first buffer's header except at offsets 4-7
\* and 40-43.
C13_MergedBytes ==
  (Merged /\ MergeableInput) =>
    LET out == MergeOut.bytes
    IN /\ SubSeq(out, 45, Len(out)) = PayloadBytes(MergeIn, Len(MergeIn))
       /\ \A k \in (1..4) \cup (9..40) : out[k] = MergeIn[1].bytes[k]

\* C13 witness: a merge whose first buffer has a header that differs from
\* the other's outside the size fields, and a payload from both orders
C13_Witness ==
  /\ Merged
  /\ MergeIn = << HeaderOnly, ClipB, ClipA >>
  /\ SubSeq(MergeOut.bytes, 45, Len(MergeOut.bytes)) = << 3, 1, 2 >>
  /\ MergeOut.bytes[23] = 2

\* C14: merge is associative on buffers of at least 44 bytes: merging
\* [A, B, C] gives, byte for byte, what merging [merge([A, B]), C] gives.
C14_MergeAssociative ==
  (Merged /\ MergeableInput /\ Len(MergeIn) = 3) =>
    LET ab == mergeWavBase64(<< MergeIn[1], MergeIn[2] >>)
    IN /\ mergeWavBase64(<< ab, MergeIn[3] >>) = MergeOut
       /\ mergeWavBase64(<< ab, MergeIn[3] >>).bytes = MergeOut.bytes

\* C14 witness: three buffers with payloads merged
C14_Witness ==
  /\ Merged
  /\ MergeIn = << ClipB, HeaderOnly, ClipA >>
  /\ Len(MergeOut.bytes) = 47

\* C15: when one of N >= 2 buffers is shorter than 44 bytes the merge returns
\* the first input unchanged, and the merge never throws: an element that
\* makes the decoding throw also gives the first input.
C15_ShortBufferFallsBack ==
  Merged =>
    /\ srv.out.http = 200
    /\ (Len(MergeIn) >= 2
          /\ \E i \in 1..Len(MergeIn) : ~IsString(MergeIn[i]) \/ Len(MergeIn[i].bytes) < 44)
         => MergeOut = MergeIn[1]

\* C15 witness: a clip followed by a buffer of 43 bytes, answered with the clip
C15_Witness ==
  /\ Merged
  /\ MergeIn = << ClipA, ShortClip >>
  /\ MergeOut = ClipA

\* C16: the merge of no buffer is the empty string, and the merge of one
\* buffer is that buffer as it was given, whatever its length and spelling.
C16_EmptyAndSingle ==
  Merged =>
    /\ Len(MergeIn) = 0 => MergeOut = EmptyString /\ srv.out.http = 200
    /\ Len(MergeIn) = 1 => MergeOut = MergeIn[1] /\ srv.out.http = 200

\* C16 witness: a single clip in a non-canonical spelling, returned as given
C16_Witness ==
  /\ Merged
  /\ Len(MergeIn) = 1
  /\ ~MergeIn[1].canonical
  /\ Len(MergeIn[1].bytes) = 46
  /\ MergeOut = MergeIn[1]

\* the calls handleBatchFallback has made for the running form request
BatchCalls ==
  SelectSeq(srv.calls, LAMBDA c : c.op \in {"initiateBatchJob", "getUploadUrl",
                                             "uploadToAzure", "startBatchJob"})

\* C17: the batch path of the form route calls, strictly in this order,
\* create job, upload target, upload, start; each call is made only after the
\* one before it succeeded (start only after the upload); the job handle
\* (jobId, fileName, status processing) is answered only after start
\* succeeded; when any step fails no handle is answered and the request ends
\* with a 500.
C17_BatchStepsInOrder ==
  srv.handler = "form" =>
    LET batch == BatchCalls
    IN /\ IsPrefix([i \in 1..Len(batch) |-> batch[i].op],
                   <<"initiateBatchJob", "getUploadUrl", "uploadToAzure", "startBatchJob">>)
       /\ \A i \in 1..(Len(batch) - 1) : batch[i].outcome = "ok"
       /\ (srv.pc = "done" /\ srv.out.status = "processing")
            => /\ Len(batch) = 4
               /\ batch[4].outcome = "ok"
               /\ srv.out.http = 200
               /\ srv.out.jobId = batch[4].jobId
               /\ srv.out.fileName = batch[1].fileName
       /\ (\E i \in 1..Len(batch) : batch[i].outcome = "error")
            => /\ srv.pc = "done"
               /\ srv.out.http = 500
               /\ ~IsJobHandle(srv.out)

\* C17 witness: the upload failed after two successful steps; start was
\* never called and the request ended with a 500
C17_Witness ==
  /\ srv.handler = "form"
  /\ Len(BatchCalls) = 3
  /\ BatchCalls[3].op = "uploadToAzure"
  /\ BatchCalls[3].outcome = "error"
  /\ srv.pc = "done"
  /\ srv.out.http = 500

\* what the status query of the running check-job handler reported as the
\* provider's error detail (Absent when it gave none)
DetailSeen == CallsOf("getBatchJobStatus")[1].detail

\* C18: when a poll observes the job state Failed the response has status
\* failed and carries the provider's error detail when there is one and the
\* default text otherwise; the handler makes no download, translate or
\* synthesize call; and the page stops polling: it sets no timer, sends no
\* further request and shows the failure.
C18_FailedJobEndsPolling ==
  [][ (srv.handler = "check-job" /\ StatusSeen = "Failed")
        => /\ srv.pc = "done"
           /\ srv.out.http = 200
           /\ srv.out.status = "failed"
           /\ srv.out.error = IF DetailSeen = Absent THEN "Batch job failed" ELSE DetailSeen
           /\ OpsMade = << "getBatchJobStatus" >>
           /\ srv'.calls \in {srv.calls, << >>}
           /\ PollAnswered
                => /\ clientPc' = "idle"
                   /\ ~isLoading'
                   /\ pollArgs'.timer = 0
                   /\ request' = NoRequest
                   /\ error' \in {NetworkError,
                                  ErrText("Batch processing failed", srv.out.error,
                                          "asWritten")} ]_vars

\* C18 witness: the page shows the provider's detail of a failed job and no
\* longer polls
C18_Witness ==
  /\ clientPc = "idle"
  /\ ~isLoading
  /\ job.state = "Failed"
  /\ error = ErrText("Batch processing failed", "provider detail", "asWritten")
  /\ pollArgs.timer = 0

\* C19: when a poll observes a job state other than Completed and Failed the
\* response has status processing and the handler makes no download-target,
\* result-fetch, translate or synthesize call: the status query is its only
\* call.
C19_UnfinishedJobIsProcessing ==
  (srv.handler = "check-job" /\ StatusSeen \in {"Accepted", "Pending", "Running"})
    => /\ srv.pc = "done"
       /\ srv.out.http = 200
       /\ srv.out.status = "processing"
       /\ srv.out.audioBase64 = EmptyString
       /\ \A i \in 1..Len(srv.calls) : srv.calls[i].op = "getBatchJobStatus"
       /\ Len(srv.calls) = 1

\* C19 witness: a poll of a running job answered with status processing
C19_Witness ==
  /\ srv.handler = "check-job"
  /\ StatusSeen = "Running"
  /\ srv.pc = "done"
  /\ srv.out.status = "processing"
  /\ clientPc = "awaitPoll"

\* C20: when the status query reports Completed and a later step of the same
\* poll fails, the failure is terminal: the response is the 500 of the catch
\* block, never a response with status processing, and the page sets no
\* timer and sends no further poll but shows an error.
C20_FailureAfterCompletedIsTerminal ==
  [][ (srv.handler = "check-job" /\ StatusSeen = "Completed" /\ srv.pc = "done")
        => /\ srv.out.status # "processing"
           /\ (srv.out.status # "completed")
                => /\ srv.out.http = 500
                   /\ srv.out.error = "Status check failed"
           /\ PollAnswered
                => /\ clientPc' = "idle"
                   /\ ~isLoading'
                   /\ pollArgs'.timer = 0
                   /\ request' = NoRequest
                   /\ (srv.out.status # "completed") => error' # NoError ]_vars

\* C20 witness: a poll of a completed job whose synthesize call failed has
\* answered 500
C20_Witness ==
  /\ srv.handler = "check-job"
  /\ StatusSeen = "Completed"
  /\ srv.pc = "done"
  /\ srv.out.http = 500
  /\ Made("textToSpeech")
  /\ \E i \in 1..Len(srv.calls) :
       srv.calls[i].op = "textToSpeech" /\ srv.calls[i].outcome = "error"

\* the download-target lookups of the running poll, and how many targets a
\* lookup yielded (none when it threw)
Lookups == CallsOf("getDownloadUrls")
Targets(c) == IF c.outcome = "ok" THEN Len(c.reply) ELSE 0
\* the per-file entries the status query of the running poll reported
DetailsSeen == CallsOf("getBatchJobStatus")[1].reply
\* the output file names of the entries with state Success, in reported order
RECURSIVE NamedOutputs(_, _)
NamedOutputs(details, k) ==
  IF k = 0 THEN << >>
  ELSE NamedOutputs(details, k - 1)
       \o (IF details[k].state = "Success"
             THEN SelectSeq(details[k].outputs, LAMBDA n : n # << >>) ELSE << >>)
\* the guesses: the name with its extension replaced by json, then the name
Guesses(fileName) ==
  << (IF Len(fileName) >= 2 /\ fileName[Len(fileName)] # ""
        THEN SubSeq(fileName, 1, Len(fileName) - 1) ELSE fileName) \o << "json" >>,
     fileName >>
Candidates ==
  LET named == NamedOutputs(DetailsSeen, Len(DetailsSeen))
  IN IF named # << >> THEN named ELSE Guesses(srv.fileName)
NoUrlsFound == AppError("Job completed but no download URLs found.")

\* C21: on a Completed job the candidate result files are looked up in
\* order, a further candidate only after every earlier one threw or yielded
\* no target; the first candidate with targets ends the lookups and its
\* result is fetched; a candidate that throws or yields nothing does not end
\* the poll while candidates remain; the poll fails with "no download URLs
\* found" exactly when every candidate has been tried without a target.
C21_CandidatesTriedInOrder ==
  (srv.handler = "check-job" /\ StatusSeen = "Completed") =>
    LET n == Len(Lookups)
    IN /\ n <= Len(Candidates)
       /\ \A i \in 1..n : Lookups[i].fileName = Candidates[i]
       /\ \A i \in 1..(n - 1) : Targets(Lookups[i]) = 0
       /\ (n > 0 /\ Targets(Lookups[n]) > 0)
            => srv.pc = "fetchResult" \/ Made("fetchResult")
       /\ Made("fetchResult") => (n > 0 /\ Targets(Lookups[n]) > 0)
       /\ (n > 0 /\ n < Len(Candidates) /\ Targets(Lookups[n]) = 0)
            => srv.pc = "getDownloadUrls"
       /\ (srv.pc = "done" /\ srv.out.details = NoUrlsFound)
            <=> (n = Len(Candidates) /\ \A i \in 1..n : Targets(Lookups[i]) = 0)

\* C21 witness: the first candidate threw, the second yielded targets and
\* the poll went on to fetch the result
C21_Witness ==
  /\ srv.handler = "check-job"
  /\ Len(Lookups) = 2
  /\ Lookups[1].outcome = "error"
  /\ Targets(Lookups[2]) = 2
  /\ Made("fetchResult")

\* C22: on a Completed job the candidate result files are exactly the output
\* file names of the per-file entries with state Success, in reported order,
\* whenever there is such a name; the guesses (the original name with its
\* extension replaced by .json, then the original name) are the candidates
\* only when there is none.
C22_ExplicitNamesBeforeGuesses ==
  (srv.handler = "check-job" /\ StatusSeen = "Completed") =>
    LET named == NamedOutputs(DetailsSeen, Len(DetailsSeen))
        used == [i \in 1..Len(Lookups) |-> Lookups[i].fileName]
    IN /\ named # << >> => srv.outputFileNames = named /\ IsPrefix(used, named)
       /\ named = << >>
            => /\ srv.outputFileNames = Guesses(request.fileName)
               /\ IsPrefix(used, Guesses(request.fileName))

\* C22 witness: a job that reported a failed entry and a successful entry
\* with two named outputs and an unnamed one; both names were looked up
C22_Witness ==
  /\ srv.handler = "check-job"
  /\ StatusSeen = "Completed"
  /\ Len(DetailsSeen) = 2
  /\ Len(Lookups) = 2
  /\ Lookups[1].fileName = << "1", "json" >>
  /\ Lookups[2].fileName = << "2", "json" >>

\* the translate and the synthesize calls of the running handler, in the
\* order of their chunks
TranslateCalls == CallsOf("translateText")
SpeechCalls == CallsOf("textToSpeech")
AllOk(calls) == calls # << >> /\ \A i \in 1..Len(calls) : calls[i].outcome = "ok"
Concurrent == srv.variant = "full" /\ srv.handler \in {"form", "check-job"}

\* C23: when the chunk calls of a stage are issued together then, whatever
\* the order in which they complete, the i-th element of the assembled
\* result is the answer to the i-th chunk: the translated text is the answers
\* of the translate calls joined in chunk order, and the merged audio is the
\* merge of the answers of the synthesize calls in chunk order.
C23_ResultsInChunkOrder ==
  Concurrent =>
    /\ (srv.pc = "settle" /\ srv.stage = "translate")
         => \A i \in 1..Len(TranslateCalls) :
              TranslateCalls[i].outcome = "ok"
                => srv.translatedChunks[i] = TranslatedText(TranslateCalls[i].reply)
    /\ AllOk(TranslateCalls)
         => srv.translatedText =
              JoinSpace([i \in 1..Len(TranslateCalls) |->
                           TranslatedText(TranslateCalls[i].reply)])
    /\ (srv.pc = "settle" /\ srv.stage = "speech")
         => \A i \in 1..Len(SpeechCalls) :
              SpeechCalls[i].outcome = "ok"
                => srv.audioParts[i] = SpeechAudio(SpeechCalls[i].reply)
    /\ (AllOk(SpeechCalls) /\ srv.out.http = 200)
         => srv.out.audioBase64 =
              mergeWavBase64([i \in 1..Len(SpeechCalls) |->
                                SpeechAudio(SpeechCalls[i].reply)])

\* C23 witness: of two synthesize calls issued together the second has
\* completed while the first is still in flight, and its audio is the second
\* element
C23_Witness ==
  /\ Concurrent
  /\ srv.pc = "settle"
  /\ Len(SpeechCalls) = 2
  /\ SpeechCalls[1].outcome = "pending"
  /\ SpeechCalls[2].outcome = "ok"
  /\ srv.audioParts[2] = ClipA
  /\ srv.audioParts[1] = EmptyString

\* a successful synthesize answer without an audio payload
NoAudio(r) == Len(r.audios) = 0 /\ r.audio = EmptyString /\ r.base64 = EmptyString

\* C24 (as stated): a synthesize call whose answer is successful but carries
\* no audio payload fails the run; no run completes successfully after such
\* an answer.
C24_AsStated ==
  (\E i \in 1..Len(SpeechCalls) :
     SpeechCalls[i].outcome = "ok" /\ NoAudio(SpeechCalls[i].reply))
    => ~(srv.pc = "done" /\ srv.out.http = 200)

\* a fast-path result or a completed poll result has been answered
Succeeded ==
  /\ srv.pc = "done"
  /\ srv.out.http = 200
  /\ \/ srv.handler = "form" /\ srv.out.status = Absent
     \/ srv.handler = "check-job" /\ srv.out.status = "completed"

\* C25 (as stated): every successful result, of the fast path or of a
\* completed poll, has a non-empty originalText and a non-empty
\* translatedText.
C25_AsStated ==
  Succeeded => srv.out.originalText # << >> /\ srv.out.translatedText # << >>

\* the first non-empty of the candidate fields, << >> when there is none
FirstOf(fields) ==
  IF \A i \in 1..Len(fields) : fields[i] = << >> THEN << >>
  ELSE fields[CHOOSE i \in 1..Len(fields) :
                /\ fields[i] # << >>
                /\ \A j \in 1..(i - 1) : fields[j] = << >>]
TranscriptOf(r) == FirstOf(<< r.transcript, r.text, r.dataText, r.resultText >>)
TranslationOf(r) == FirstOf(<< r.translated_text, r.text, r.dataTranslated >>)

\* C26 (as stated): a transcript is the first non-empty of transcript, text,
\* data.text, result.text and a translation the first non-empty of
\* translated_text, text, data.translated_text; when none is non-empty the run
\* fails and no later stage receives the empty text (a result file whose
\* transcript is blank counts as one without transcript).
C26_AsStated ==
  /\ \A i \in 1..Len(srv.calls) :
       LET c == srv.calls[i]
       IN /\ (c.op = "speechToText" /\ c.outcome = "ok")
               => IF TranscriptOf(c.reply) = << >>
                    THEN srv.pc = "done" /\ srv.out.http = 500 /\ ~Made("translateText")
                    ELSE srv.originalText = TranscriptOf(c.reply)
          /\ (c.op = "fetchResult" /\ c.outcome = "ok" /\ ~c.reply.isArray)
               => IF \A k \in 1..Len(TranscriptOf(c.reply)) : IsWs(TranscriptOf(c.reply)[k].c)
                    THEN srv.pc = "done" /\ srv.out.http = 500 /\ ~Made("translateText")
                    ELSE srv.originalText = TranscriptOf(c.reply)
  /\ \A i \in 1..Len(TranslateCalls) :
       TranslateCalls[i].outcome = "ok"
         => IF TranslationOf(TranslateCalls[i].reply) = << >>
              THEN srv.pc = "done" /\ srv.out.http = 500 /\ ~Made("textToSpeech")
              ELSE srv.pc = "settle" /\ srv.stage = "translate"
                     => srv.translatedChunks[i] = TranslationOf(TranslateCalls[i].reply)

\* a translate or synthesize call of the running handler that failed with
\* another error than the same-language error
FatalCallFailure ==
  \E i \in 1..Len(srv.calls) :
    /\ srv.calls[i].op \in {"translateText", "textToSpeech"}
    /\ srv.calls[i].outcome = "error"
    /\ srv.calls[i].err.phrase # "Source and target languages must be different"

\* C27: no translate or synthesize call is retried: the calls of a stage
\* carry the chunks of the stage, the i-th call the i-th chunk, each chunk at
\* most once, and no translate call follows a synthesize call; where the
\* calls are made one after the other no call follows a failed one; a
\* translate or synthesize call that fails with another error than the
\* same-language error ends the run with a 500 that carries no text and no
\* audio.
C27_NoRetryFirstFailureEnds ==
  srv.handler \in {"form", "check-job"} =>
    /\ srv.stage = "translate"
         => /\ Len(TranslateCalls) <= Len(srv.queue)
            /\ \A i \in 1..Len(TranslateCalls) : TranslateCalls[i].text = srv.queue[i]
            /\ SpeechCalls = << >>
    /\ srv.stage = "speech"
         => /\ Len(SpeechCalls) <= Len(srv.queue)
            /\ \A i \in 1..Len(SpeechCalls) : SpeechCalls[i].text = srv.queue[i]
    /\ \A i, j \in 1..Len(srv.calls) :
         (srv.calls[i].op = "textToSpeech" /\ srv.calls[j].op = "translateText") => j < i
    /\ srv.variant = "legacy"
         => \A i, j \in 1..Len(srv.calls) :
              (i < j /\ {srv.calls[i].op, srv.calls[j].op}
                            \subseteq {"translateText", "textToSpeech"})
                => srv.calls[i].outcome = "ok"
    /\ FatalCallFailure
         => /\ srv.pc = "done"
            /\ srv.out.http = 500
            /\ srv.out.originalText = << >>
            /\ srv.out.translatedText = << >>
            /\ srv.out.audioBase64 = EmptyString

\* C27 witness: of two synthesize calls issued together the second failed
\* while the first was in flight; the run ended with a 500
C27_Witness ==
  /\ srv.pc = "done"
  /\ srv.out.http = 500
  /\ Len(SpeechCalls) = 2
  /\ SpeechCalls[1].outcome = "pending"
  /\ SpeechCalls[2].outcome = "error"

\* a step of the check-job handler
PollStep == srv' # srv /\ (srv.handler = "check-job" \/ srv'.handler = "check-job")

\* C28: the poller only observes the job: whatever the job state, a poll
\* issues no create-job, upload-target, upload or start-job call, and no step
\* of a poll changes the job.
C28_PollOnlyObserves ==
  [][ /\ srv.handler = "check-job"
        => \A i \in 1..Len(srv.calls) :
             srv.calls[i].op \notin {"initiateBatchJob", "getUploadUrl", "uploadToAzure",
                                     "startBatchJob"}
      /\ PollStep
           => /\ job' = job
              /\ \A i \in 1..Len(srv'.calls) :
                   srv'.calls[i].op \notin {"initiateBatchJob", "getUploadUrl",
                                            "uploadToAzure", "startBatchJob"} ]_vars

\* C28 witness: a poll that went through every stage for a completed job and
\* left the job as it was
C28_Witness ==
  /\ srv.handler = "check-job"
  /\ srv.pc = "done"
  /\ Made("getBatchJobStatus")
  /\ Made("getDownloadUrls")
  /\ Made("textToSpeech")
  /\ job.state = "Completed"
  /\ job.uploaded

\* C29: a stage whose text is not longer than its ceiling (1900 characters
\* for translate; 2500 for synthesize, 500 in the older routes) issues exactly
\* one provider call, which carries the whole text as it is; a stage has more
\* than one call only when its text is strictly longer than the ceiling.
C29_WholeTextAtOrBelowCeiling ==
  srv.handler \in {"form", "check-job"} =>
    /\ (srv.stage \in {"translate", "speech"} /\ TextLen(srv.originalText) <= 1900)
         => Len(TranslateCalls) = 1 /\ TranslateCalls[1].text = srv.originalText
    /\ Len(TranslateCalls) > 1 => TextLen(srv.originalText) > 1900
    /\ LET ceiling == IF srv.variant = "legacy" THEN 500 ELSE 2500
       IN /\ (srv.stage = "speech" /\ TextLen(srv.translatedText) <= ceiling)
               => Len(SpeechCalls) = 1 /\ SpeechCalls[1].text = srv.translatedText
          /\ Len(SpeechCalls) > 1 => TextLen(srv.translatedText) > ceiling

\* C29 witness: a poll whose transcript of six characters ends in a space was
\* translated in one call that carried the six characters
C29_Witness ==
  /\ srv.handler = "check-job"
  /\ srv.stage = "speech"
  /\ srv.originalText = << Run("a", 5), Run("sp", 1) >>
  /\ Len(TranslateCalls) = 1
  /\ TranslateCalls[1].text = << Run("a", 5), Run("sp", 1) >>
  /\ TranslateCalls[1].outcome = "ok"

\* the positions of the calls of an operation in the log of the running
\* handler
Positions(op) == {i \in 1..Len(srv.calls) : srv.calls[i].op = op}

\* C30: the stages of the fast path are strictly sequential: translate is
\* called only after transcribe returned a non-empty text, and with that
\* text; synthesize is called only after the translate call has settled and
\* the translated text is there; the result is answered only after every
\* synthesize call of the run has returned, and it carries the merge of their
\* audio.
C30_FastPathStagesInSequence ==
  srv.handler = "form" =>
    LET stt == CallsOf("speechToText")
    IN /\ \A i \in Positions("speechToText"), j \in Positions("translateText") : i < j
       /\ \A i \in Positions("translateText"), j \in Positions("textToSpeech") : i < j
       /\ TranslateCalls # << >>
            => /\ stt # << >>
               /\ stt[1].outcome = "ok"
               /\ TranscriptOf(stt[1].reply) # << >>
               /\ TranslateCalls[1].text = TranscriptOf(stt[1].reply)
       /\ SpeechCalls # << >>
            => /\ TranslateCalls # << >>
               /\ \A i \in 1..Len(TranslateCalls) : TranslateCalls[i].outcome # "pending"
               /\ srv.translatedText # << >>
               /\ TranslateCalls[1].outcome = "ok"
                    => srv.translatedText = TranslationOf(TranslateCalls[1].reply)
               /\ Len(srv.queue) = 1 => SpeechCalls[1].text = srv.translatedText
       /\ Succeeded
            => /\ SpeechCalls # << >>
               /\ Len(SpeechCalls) = Len(srv.queue)
               /\ \A i \in 1..Len(SpeechCalls) : SpeechCalls[i].outcome = "ok"
               /\ srv.out.translatedText = srv.translatedText
               /\ srv.out.audioBase64 =
                    mergeWavBase64([i \in 1..Len(SpeechCalls) |->
                                      SpeechAudio(SpeechCalls[i].reply)])

\* C30 witness: a fast-path request answered with the merged audio of two
\* synthesize calls
C30_Witness ==
  /\ srv.handler = "form"
  /\ Succeeded
  /\ Len(SpeechCalls) = 2
  /\ SpeechCalls[1].reply = TtsBody(<< ClipA >>, ClipB, EmptyString)
  /\ SpeechCalls[2].reply = TtsBody(<< >>, EmptyString, ClipB)
  /\ Len(srv.out.audioBase64.bytes) = 47

\* a text without a character that is not whitespace
Blank(t) == \A k \in 1..Len(t) : IsWs(t[k].c)
\* no candidate field of a result file, and no entry of a result array, holds
\* a non-blank transcript
NoTranscriptIn(r) ==
  /\ Blank(r.transcript) /\ Blank(r.text) /\ Blank(r.dataText) /\ Blank(r.resultText)
  /\ \A k \in 1..Len(r.items) : Blank(r.items[k].transcript) /\ Blank(r.items[k].text)
StoppedBeforeTranslate ==
  /\ srv.pc = "done"
  /\ srv.out.http = 500
  /\ ~Made("translateText")
  /\ ~Made("textToSpeech")

\* C31: an empty transcript is fatal on both paths: when speechToText
\* returns an empty text, or the result file of a completed job holds no
\* non-blank transcript in any candidate field, the run ends with an error
\* and no translate or synthesize call is made.
C31_EmptyTranscriptIsFatal ==
  \A i \in 1..Len(srv.calls) :
    LET c == srv.calls[i]
    IN /\ (c.op = "speechToText" /\ c.outcome = "ok"
             /\ c.reply.transcript = << >> /\ c.reply.text = << >>
             /\ c.reply.dataText = << >> /\ c.reply.resultText = << >>)
            => StoppedBeforeTranslate /\ srv.out.error = "Translation failed"
       /\ (c.op = "fetchResult" /\ c.outcome = "ok" /\ NoTranscriptIn(c.reply))
            => StoppedBeforeTranslate /\ srv.out.error = "Status check failed"

\* C31 witness: a poll whose result file holds three spaces as its transcript
\* ended with "Transcript not found"
C31_Witness ==
  /\ srv.handler = "check-job"
  /\ Made("fetchResult")
  /\ CallsOf("fetchResult")[1].outcome = "ok"
  /\ CallsOf("fetchResult")[1].reply.transcript = << Run("sp", 3) >>
  /\ srv.pc = "done"
  /\ srv.out.details = AppError("Transcript not found in job results.")

\* C32: the routing decision is taken once per request: a translate-audio
\* request makes at most one speechToText call and creates at most one batch
\* job, and once it has called the batch path it makes no speechToText,
\* translate or synthesize call any more.
C32_RoutedOnce ==
  srv.handler = "form" =>
    /\ Len(CallsOf("speechToText")) <= 1
    /\ Len(CallsOf("initiateBatchJob")) <= 1
    /\ \A i, j \in 1..Len(srv.calls) :
         (i < j /\ srv.calls[i].op \in {"initiateBatchJob", "getUploadUrl", "uploadToAzure",
                                        "startBatchJob"})
           => srv.calls[j].op \in {"getUploadUrl", "uploadToAzure", "startBatchJob"}
    /\ Made("initiateBatchJob")
         => /\ srv.pc \in {"getUploadUrl", "uploadToAzure", "startBatchJob", "done"}
            /\ ~Made("translateText")
            /\ ~Made("textToSpeech")

\* C32 witness: a request that made its one speechToText call, was turned to
\* the batch path by the duration error and failed there at the upload
C32_Witness ==
  /\ srv.handler = "form"
  /\ Len(CallsOf("speechToText")) = 1
  /\ CallsOf("speechToText")[1].outcome = "error"
  /\ Len(CallsOf("initiateBatchJob")) = 1
  /\ Made("uploadToAzure")
  /\ srv.pc = "done"
  /\ srv.out.http = 500

\* the page is in its large-file bypass
BypassSteps == {"awaitInitiate", "uploading", "awaitStart"}
\* the run ended with an error and without a poll
EndsWithError ==
  /\ clientPc' = "idle"
  /\ ~isLoading'
  /\ error' # NoError
  /\ request' = NoRequest
  /\ pollArgs'.timer = 0

\* C33: in the page's large-file bypass (file over 4 MiB) the steps run in
\* the order initiate, direct upload, start, poll: the upload begins only
\* after the initiate request succeeded, start is requested only after the
\* upload succeeded, polling begins only after the start request succeeded,
\* and a step that fails ends the run with an error and without polling.
C33_BypassStepsInOrder ==
  [][ /\ clientPc \in BypassSteps => audioFile.size > 4 * 1048576
      /\ (clientPc # "awaitInitiate" /\ clientPc' = "awaitInitiate")
           => clientPc = "idle" /\ request'.kind = "initiate"
      /\ (clientPc # "uploading" /\ clientPc' = "uploading")
           => /\ clientPc = "awaitInitiate"
              /\ srv.handler = "initiate" /\ srv.pc = "done" /\ srv.out.http = 200
              /\ request' = NoRequest
      /\ (clientPc # "awaitStart" /\ clientPc' = "awaitStart")
           => /\ clientPc = "uploading"
              /\ job'.id = pollArgs.jobId => job'.uploaded
              /\ request'.kind = "start" /\ request'.jobId = pollArgs.jobId
      /\ (clientPc \in BypassSteps /\ clientPc' = "awaitPoll")
           => /\ clientPc = "awaitStart"
              /\ srv.handler = "start" /\ srv.pc = "done" /\ srv.out.http = 200
              /\ request'.kind = "check-job" /\ request'.jobId = pollArgs.jobId
      /\ (clientPc = "awaitInitiate" /\ clientPc' \notin {"awaitInitiate", "uploading"})
           => EndsWithError
      /\ (clientPc = "uploading" /\ clientPc' \notin {"uploading", "awaitStart"})
           => EndsWithError
      /\ (clientPc = "awaitStart" /\ clientPc' \notin {"awaitStart", "awaitPoll"})
           => EndsWithError
      /\ (clientPc \in {"awaitInitiate", "awaitStart"} /\ clientPc' # clientPc
            /\ srv.pc = "done" /\ srv.out.http # 200)
           => EndsWithError ]_vars

\* C33 witness: the bypass has gone through its three steps and the first
\* poll of the uploaded and started job is out
C33_Witness ==
  /\ audioFile.size > 4 * 1048576
  /\ clientPc = "awaitPoll"
  /\ request.kind = "check-job"
  /\ request.jobId = job.id
  /\ job.uploaded
  /\ job.state = "Pending"
  /\ warning = "Processing (this may take a few minutes for large files)..."

\* the page is in a run: a request is outstanding or a poll is scheduled
RunInFlight == clientPc # "idle"
\* the step starts a run
StartsRun == clientPc = "idle" /\ clientPc' \in {"awaitInitiate", "awaitTranslate"}

EndsRun == RunInFlight /\ clientPc' = "idle"

\* C35: the page never holds a result and an error at once, and every way a
\* run ends (immediate result, completed poll, failed poll, thrown error)
\* leaves isLoading false, with either the result or the error set.
C35_ResultOrErrorAndLoadingReset ==
  /\ [](~(result # NoResponse /\ error # NoError))
  /\ [][ EndsRun => /\ ~isLoading'
                    /\ (result' # NoResponse) # (error' # NoError) ]_vars
\* a run has ended with an error: the page is idle, not loading, without a result
C35_Witness ==
  /\ clientPc = "idle" /\ ~isLoading /\ error # NoError /\ result = NoResponse
  /\ audioFile # NoFile /\ targetLanguage = "ta-IN"

\* C36 (as stated): when the fast-path answer or the completed poll answer
\* that the page holds as its result includes a warning, the page shows
\* that warning.
C36_AsStated ==
  (result # NoResponse /\ result.warning # Absent) => warning = result.warning

\* the chunks the running handler cut its transcript and its translated
\* text into, and those of them that are not blank
TranslateStageChunks == TranslateChunks(srv.originalText)
SpeechStageChunks ==
  SpeechChunks(srv.translatedText, SpeechChunkLenOf(srv), SpeechCeilingOf(srv))
NonBlank(chunks) == SelectSeq(chunks, LAMBDA c : ~Blank(c))
\* the calls carry the trimmed non-blank chunks, one call per chunk in
\* chunk order, and every chunk has its call once the stage has issued all
SentTrimmed(calls, chunks, allIssued) ==
  \A kept \in {NonBlank(chunks)} :
     /\ Len(calls) <= Len(kept)
     /\ \A i \in 1..Len(calls) :
          /\ calls[i].text = Trim(kept[i])
          /\ ~Blank(calls[i].text)
     /\ allIssued => Len(calls) = Len(kept)
TranslateIsChunked ==
  /\ srv.handler = "check-job" /\ srv.stage \in {"translate", "speech"}
  /\ TextLen(srv.originalText) > 1900
SpeechIsChunked ==
  /\ srv.handler \in {"form", "check-job"} /\ srv.stage = "speech"
  /\ TextLen(srv.translatedText) > StageCeiling

\* the handler has just issued calls: none of a concurrent stage is answered
\* yet, the last one of a sequential stage is not
AllPending(calls) == \A i \in 1..Len(calls) : calls[i].outcome = "pending"
JustIssued ==
  /\ srv.pc = "settle" /\ srv.calls # << >>
  /\ srv.calls[Len(srv.calls)].outcome = "pending"
  /\ Concurrent => AllPending(IF srv.stage = "translate" THEN TranslateCalls
                              ELSE SpeechCalls)
\* a handler that awaits its calls one by one has answered with a result
LoopAnswered == ~Concurrent /\ srv.pc = "done" /\ srv.out.http = 200
NoneBlank(calls) == \A i \in 1..Len(calls) : ~Blank(calls[i].text)

\* C37: chunks that are blank after trimming are never sent to a provider.
\* In a chunked stage no translate or synthesize call carries a blank text;
\* the calls are the non-blank chunks in order, each call carrying the
\* trimmed chunk text, and their number is the number of non-blank chunks
\* once the stage has issued its calls (at once where the calls are
\* concurrent, at the end of the loop where they are awaited one by one and
\* none has failed).  The chunks are compared when calls have just been
\* issued and when a loop has ended; the text of an issued call does not
\* change.
C37_BlankChunksNeverSent ==
  /\ TranslateIsChunked
       => /\ NoneBlank(TranslateCalls)
          /\ JustIssued
               => SentTrimmed(TranslateCalls, TranslateStageChunks,
                              Concurrent \/ srv.stage = "speech")
  /\ SpeechIsChunked
       => /\ NoneBlank(SpeechCalls)
          /\ (JustIssued \/ LoopAnswered)
               => SentTrimmed(SpeechCalls, SpeechStageChunks, Concurrent \/ LoopAnswered)
\* a chunked translate stage has issued its calls: the second chunk of the
\* transcript is blank and only the first chunk has been sent
C37_Witness ==
  /\ TranslateIsChunked /\ srv.pc = "settle" /\ srv.stage = "translate"
  /\ Len(TranslateStageChunks) = 2
  /\ Blank(TranslateStageChunks[2])
  /\ Len(TranslateCalls) = 1
  /\ TranslateCalls[1].text = << Run("a", TranslateCeiling), Run(".", 1) >>

\* C38 (as stated): a recording never runs longer than 600 seconds. The
\* displayed duration never exceeds 600, no MediaRecorder is recording and
\* no interval is set once 600 seconds have been recorded, and the recorder,
\* while it is on the page without captured audio, then has its stop event
\* to deliver.
C38_AsStated ==
  /\ recorder.recordingDuration <= MaxDuration
  /\ recorder.seconds >= MaxDuration
       => /\ recorder.mediaRecorder # "recording"
          /\ ~recorder.timer
          /\ (recorder.mounted /\ audioFile = NoFile) => recorder.stopEvent

====
